---------------------------- MODULE Spec2Model ----------------------------
(***************************************************************************)
(* STANAL: 3D frame analysis by the direct stiffness method.               *)
(*                                                                         *)
(* Numbers.  The program computes in IEEE doubles.  The model computes in  *)
(* exact rational arithmetic: a number is a pair <<n, d>> in lowest terms  *)
(* with d > 0.  Rounding is therefore not modelled; every statement below  *)
(* about numeric results is a statement in exact arithmetic.  Math.sqrt is *)
(* modelled on squares of rationals and Math.cos / Math.sin on multiples   *)
(* of 90 degrees, so the geometries of the model are those with rational   *)
(* lengths and direction cosines (axis-parallel and 3-4-5 members).        *)
(*                                                                         *)
(* Indices.  Vectors and matrices are functions on 0..n-1 as in the code;  *)
(* lists (nodes, members, freeDOF, ...) are sequences, so list position i  *)
(* of the code is position i+1 of the sequence.                            *)
(*                                                                         *)
(* Exceptions.  An operation that can throw returns [threw |-> TRUE,       *)
(* error |-> message] or [threw |-> FALSE, value |-> v].                   *)
(***************************************************************************)
EXTENDS Integers, Sequences, FiniteSets, TLC

VARIABLES
    input,           \* the model handed to `new Analyzer`, or NoModel
    analyzer,        \* the Analyzer object, or NoAnalyzer
    snapshot,        \* the Analyzer object as its constructor left it
    escaped,         \* message of the exception that escaped the last core call ("" if none)
    calls,           \* analyze calls made on `analyzer`: sequence of [name, result]
    last,            \* locals of the last analyze call (K, P, D1, D, reactions) as far as it got
    currentModel,    \* extension global
    currentResults,  \* extension global: Map from combination name to AnalysisResult
    pc,              \* position of runAnalysis: "idle", "progress", "loop"
    idx,             \* loop counter i of runAnalysis
    shown,           \* the last notification shown by the extension ("" if none)
    diagnostics,     \* the findings validateDocument last published
    previewPanel,    \* PreviewPanel.currentPanel: NoPanel, or its _model and _results
    solver,          \* a call of Matrix.solve: its arguments, locals and position
    memberElement    \* a Member3DElement object and the last call made on it

vars == <<input, analyzer, snapshot, escaped, calls, last,
          currentModel, currentResults, pc, idx, shown, diagnostics, previewPanel,
          solver, memberElement>>

-----------------------------------------------------------------------------
(* JavaScript values *)

\* `undefined` for an optional numeric field
Undefined == <<>>

\* `undefined` for an optional string field
UndefinedStr == "<undefined>"

Throw(msg) == [threw |-> TRUE, error |-> msg]

Ok(v) == [threw |-> FALSE, value |-> v]

\* evaluates a function value once, so that later applications read the table
Force(f) == IF f = f THEN f ELSE f

\* `const x = ...` followed by the statements F that use x
With(x, F(_)) == F(x)

-----------------------------------------------------------------------------
(* Numbers: exact rationals *)

RECURSIVE GCD(_, _)
GCD(a, b) == IF b = 0 THEN a ELSE GCD(b, a % b)

IAbs(a) == IF a < 0 THEN -a ELSE a

Norm(n, d) ==
    LET g == GCD(IAbs(n), IAbs(d))
        s == IF d < 0 THEN -1 ELSE 1
    IN  <<(s * n) \div g, (s * d) \div g>>

R(n) == <<n, 1>>

Q(n, d) == Norm(n, d)

Zero == <<0, 1>>

One == <<1, 1>>

RAdd(a, b) ==
    IF a[1] = 0 THEN b
    ELSE IF b[1] = 0 THEN a
    ELSE LET g == GCD(a[2], b[2])
         IN  Norm(a[1] * (b[2] \div g) + b[1] * (a[2] \div g), (a[2] \div g) * b[2])

RNeg(a) == <<-a[1], a[2]>>

RSub(a, b) == RAdd(a, RNeg(b))

RMul(a, b) ==
    IF a[1] = 0 \/ b[1] = 0 THEN Zero
    ELSE LET g1 == GCD(IAbs(a[1]), b[2])
             g2 == GCD(IAbs(b[1]), a[2])
         IN  <<(a[1] \div g1) * (b[1] \div g2), (a[2] \div g2) * (b[2] \div g1)>>

\* a / b for b # 0 (the program never divides by zero on the models considered)
RDiv(a, b) ==
    IF b[1] < 0 THEN RMul(a, <<-b[2], -b[1]>>) ELSE RMul(a, <<b[2], b[1]>>)

\* Math.abs
RAbs(a) == <<IAbs(a[1]), a[2]>>

RLess(a, b) ==
    LET g == GCD(a[2], b[2])
    IN  a[1] * (b[2] \div g) < b[1] * (a[2] \div g)

\* Math.min
RMin(a, b) == IF RLess(b, a) THEN b ELSE a

RECURSIVE DivPow10(_, _)
DivPow10(n, k) == IF k = 0 THEN n ELSE DivPow10(n \div 10, k - 1)

\* a < 10^-k for a >= 0, computed without forming 10^k:
\* n/d < 10^-k  <=>  n * 10^k < d  <=>  n = 0 \/ floor((d-1)/n) >= 10^k
LessThanTenToMinus(a, k) ==
    \/ a[1] = 0
    \/ DivPow10((a[2] - 1) \div a[1], k) >= 1

\* a > 10^-k for a >= 0:  n * 10^k > d  <=>  n # 0 /\ floor(d/n) < 10^k
GreaterThanTenToMinus(a, k) ==
    /\ a[1] # 0
    /\ DivPow10(a[2] \div a[1], k) = 0

\* Math.sqrt on the square of a rational
ISqrt(n) == CHOOSE s \in 0..n : s * s = n

Sqrt(a) == <<ISqrt(a[1]), ISqrt(a[2])>>

\* Math.cos(deg * Math.PI / 180) and Math.sin(...) on multiples of 90 degrees
Cos(deg) ==
    LET m == deg % 360
    IN  IF m = 0 THEN One ELSE IF m = 180 THEN R(-1) ELSE Zero

Sin(deg) ==
    LET m == deg % 360
    IN  IF m = 90 THEN One ELSE IF m = 270 THEN R(-1) ELSE Zero

\* sum of f[i] for i in lo..hi
RECURSIVE SumTo(_, _, _)
SumTo(f, lo, hi) == IF hi < lo THEN Zero ELSE RAdd(SumTo(f, lo, hi - 1), f[hi])

-----------------------------------------------------------------------------
(* Matrix.ts: class Matrix *)

Matrix(rows, cols, data) == [rows |-> rows, cols |-> cols, data |-> Force(data)]

zeros(rows, cols) ==
    Matrix(rows, cols, [i \in 0..rows-1 |-> [j \in 0..cols-1 |-> Zero]])

\* Matrix.fromArray([vec]).transpose(): a column matrix
columnOf(vec, n) == Matrix(n, 1, [i \in 0..n-1 |-> [j \in 0..0 |-> vec[i]]])

\* sum += row[k] * B[k][j] for k = k..n-1
RECURSIVE RowTimesColumn(_, _, _, _, _, _)
RowTimesColumn(row, B, j, k, n, sum) ==
    IF k >= n THEN sum
    ELSE RowTimesColumn(row, B, j, k + 1, n,
            IF row[k][1] = 0 THEN sum ELSE RAdd(sum, RMul(row[k], B[k][j])))

\* result[i] += row[j] * vec[j] for j = j..n-1
RECURSIVE RowTimesVector(_, _, _, _, _)
RowTimesVector(row, vec, j, n, sum) ==
    IF j >= n THEN sum
    ELSE RowTimesVector(row, vec, j + 1, n,
            IF row[j][1] = 0 THEN sum ELSE RAdd(sum, RMul(row[j], vec[j])))

multiply(A, B) ==
    IF A.cols # B.rows
    THEN Throw("Cannot multiply")
    ELSE Ok(Matrix(A.rows, B.cols,
            [i \in 0..A.rows-1 |-> [j \in 0..B.cols-1 |->
                RowTimesColumn(A.data[i], B.data, j, 0, A.cols, Zero)]]))

multiplyVector(A, vec, len) ==
    IF A.cols # len
    THEN Throw("Vector length must match matrix columns")
    ELSE Ok(Force([i \in 0..A.rows-1 |->
                RowTimesVector(A.data[i], vec, 0, A.cols, Zero)]))

\* the dimension check shared by plus and minus, then result.set(i, j, ...)
\* on every entry of a new Matrix
plus(A, other) ==
    IF A.rows # other.rows \/ A.cols # other.cols
    THEN Throw("Matrix dimensions must match for addition")
    ELSE Ok(Matrix(A.rows, A.cols,
            [i \in 0..A.rows-1 |-> [j \in 0..A.cols-1 |->
                RAdd(A.data[i][j], other.data[i][j])]]))

minus(A, other) ==
    IF A.rows # other.rows \/ A.cols # other.cols
    THEN Throw("Matrix dimensions must match for subtraction")
    ELSE Ok(Matrix(A.rows, A.cols,
            [i \in 0..A.rows-1 |-> [j \in 0..A.cols-1 |->
                RSub(A.data[i][j], other.data[i][j])]]))

scale(A, scalar) ==
    Matrix(A.rows, A.cols,
           [i \in 0..A.rows-1 |-> [j \in 0..A.cols-1 |-> RMul(A.data[i][j], scalar)]])

\* Variant of clone that returns the receiver itself instead of a copy
cloneSameObject(A) == [object |-> "this", value |-> A]

\* clone(): a new Matrix with every entry copied.  `object` names the object
\* returned: "result" is the Matrix made by `new Matrix`, "this" the receiver
clone(A) ==
    [object |-> "result",
     value |-> Matrix(A.rows, A.cols,
                      [i \in 0..A.rows-1 |-> [j \in 0..A.cols-1 |-> A.data[i][j]]])]

\* [...b]: a new array with the elements of b ("argument" would be b itself)
spread(b) == [object |-> "result", value |-> b]

transpose(A) ==
    Matrix(A.cols, A.rows, [i \in 0..A.cols-1 |-> [j \in 0..A.rows-1 |-> A.data[j][i]]])

subMatrix(A, rowIndices, colIndices) ==
    Matrix(Len(rowIndices), Len(colIndices),
           [i \in 0..Len(rowIndices)-1 |-> [j \in 0..Len(colIndices)-1 |->
                A.data[rowIndices[i + 1]][colIndices[j + 1]]]])

extractVector(vec, indices) ==
    Force([i \in 0..Len(indices)-1 |-> vec[indices[i + 1]]])

\* vec[indices[i]] = values[i]; on an index listed twice the last write wins
RECURSIVE LastPosIn(_, _, _)
LastPosIn(indices, d, i) ==
    IF i = 0 THEN 0
    ELSE IF indices[i] = d THEN i ELSE LastPosIn(indices, d, i - 1)

\* Variant of setVector that writes values[i] to vec[i] instead of vec[indices[i]]
setVectorPacked(vec, n, indices, values) ==
    Force([d \in 0..n-1 |-> IF d < Len(indices) THEN values[d] ELSE vec[d]])

setVector(vec, n, indices, values) ==
    Force([d \in 0..n-1 |->
        LET p == LastPosIn(indices, d, Len(indices))
        IN  IF p = 0 THEN vec[d] ELSE values[p - 1]])

\* the pivot threshold 1e-12 of solve, as the exponent of 10^-12
PivotTolExp == 12

SingularError == "Matrix is singular or nearly singular"

\* A.get(-1, -1) on a matrix without rows: data[-1] is undefined
NoRowError == "Cannot read properties of undefined (reading '-1')"

\* the row of maximum |A[i][k]| among rows k..n-1, the first one on ties
RECURSIVE FindPivot(_, _, _, _, _, _)
FindPivot(A, n, k, i, maxVal, maxRow) ==
    IF i >= n THEN maxRow
    ELSE IF RLess(maxVal, RAbs(A[i][k]))
         THEN FindPivot(A, n, k, i + 1, RAbs(A[i][k]), i)
         ELSE FindPivot(A, n, k, i + 1, maxVal, maxRow)

SwapRows(A, k, maxRow) ==
    IF maxRow = k THEN A
    ELSE [A EXCEPT ![k] = A[maxRow], ![maxRow] = A[k]]

\* one pass of the elimination loop for pivot column k, rows already swapped
Eliminate(A, x, n, k) ==
    LET akk == A[k][k]
        factor == [i \in k+1..n-1 |-> RDiv(A[i][k], akk)]
    IN  [A |-> Force([i \in 0..n-1 |-> [j \in 0..n-1 |->
                    IF i > k /\ j = k THEN factor[i]
                    ELSE IF i > k /\ j > k
                         THEN RSub(A[i][j], RMul(factor[i], A[k][j]))
                         ELSE A[i][j]]]),
         x |-> Force([i \in 0..n-1 |->
                    IF i > k THEN RSub(x[i], RMul(factor[i], x[k])) ELSE x[i]])]

\* the loop `for (k = 0; k < n - 1; k++)` of solve, from k on
RECURSIVE Decompose(_, _, _, _)
Decompose(A, x, n, k) ==
    IF k >= n - 1 THEN Ok([A |-> A, x |-> x])
    ELSE LET maxRow == FindPivot(A, n, k, k + 1, RAbs(A[k][k]), k)
             A1 == SwapRows(A, k, maxRow)
             x1 == SwapRows(x, k, maxRow)
         IN  IF LessThanTenToMinus(RAbs(A1[k][k]), PivotTolExp)
             THEN Throw(SingularError)
             ELSE LET e == Eliminate(A1, x1, n, k)
                  IN  Decompose(e.A, e.x, n, k + 1)

\* the back substitution loop of solve, from row i down to row 0
RECURSIVE BackSubstitute(_, _, _, _)
BackSubstitute(A, x, n, i) ==
    IF i < 0 THEN x
    ELSE LET s == SumTo([j \in i+1..n-1 |-> RMul(A[i][j], x[j])], i + 1, n - 1)
             xi == RDiv(RSub(x[i], s), A[i][i])
         IN  BackSubstitute(A, [x EXCEPT ![i] = xi], n, i - 1)

\* Variant of solve without the two pivot checks: a singular system yields
\* the right-hand side as it stands instead of an exception
solveUnchecked(M, b, len) ==
    IF M.rows # M.cols THEN Throw("Matrix must be square for solving")
    ELSE IF M.rows # len THEN Throw("Vector b length must match matrix rows")
    ELSE LET n == M.rows
             lu == Decompose(M.data, b, n, 0)
         IN  IF lu.threw THEN Ok(b)
             ELSE IF n = 0 THEN Throw(NoRowError)
             ELSE IF LessThanTenToMinus(RAbs(lu.value.A[n-1][n-1]), PivotTolExp)
                  THEN Ok(b)
                  ELSE Ok(BackSubstitute(lu.value.A, lu.value.x, n, n - 1))

\* Matrix.solve(b), b of length len
solve(M, b, len) ==
    IF M.rows # M.cols THEN Throw("Matrix must be square for solving")
    ELSE IF M.rows # len THEN Throw("Vector b length must match matrix rows")
    ELSE LET n == M.rows
             lu == Decompose(M.data, b, n, 0)
         IN  IF lu.threw THEN lu
             ELSE IF n = 0 THEN Throw(NoRowError)
             ELSE IF LessThanTenToMinus(RAbs(lu.value.A[n-1][n-1]), PivotTolExp)
                  THEN Throw(SingularError)
                  ELSE Ok(BackSubstitute(lu.value.A, lu.value.x, n, n - 1))

-----------------------------------------------------------------------------
(* Matrix.ts: createRotationMatrix, createTransformationMatrix *)

\* the length threshold 1e-10, as the exponent of 10^-10
LengthTolExp == 10

V3(a, b, c) == (0 :> a) @@ (1 :> b) @@ (2 :> c)

Sq(a) == RMul(a, a)

\* Math.sqrt(dx*dx + dy*dy + dz*dz) between two points
Distance(iNode, jNode) ==
    LET dx == RSub(jNode.x, iNode.x)
        dy == RSub(jNode.y, iNode.y)
        dz == RSub(jNode.z, iNode.z)
    IN  Sqrt(RAdd(RAdd(Sq(dx), Sq(dy)), Sq(dz)))

\* Variant of createRotationMatrix with local z = y cross x
createRotationMatrixLeftHanded(iNode, jNode, rotation) ==
    With(Distance(iNode, jNode), LAMBDA L :
    IF LessThanTenToMinus(L, LengthTolExp) THEN Throw("Member has zero length")
    ELSE
    With(V3(RDiv(RSub(jNode.x, iNode.x), L),
            RDiv(RSub(jNode.y, iNode.y), L),
            RDiv(RSub(jNode.z, iNode.z), L)), LAMBDA xLocal :
    With(Sqrt(RAdd(Sq(xLocal[0]), Sq(xLocal[2]))), LAMBDA horizontalLength :
    With(LET cx == xLocal[0]
             cy == xLocal[1]
             cz == xLocal[2]
         IN  IF LessThanTenToMinus(horizontalLength, LengthTolExp)
             THEN IF RLess(Zero, cy) THEN V3(R(-1), Zero, Zero) ELSE V3(One, Zero, Zero)
             ELSE V3(RDiv(RMul(RNeg(cy), cx), horizontalLength),
                     horizontalLength,
                     RDiv(RMul(RNeg(cy), cz), horizontalLength)), LAMBDA yLocal0 :
    With(V3(RSub(RMul(xLocal[2], yLocal0[1]), RMul(xLocal[1], yLocal0[2])),
            RSub(RMul(xLocal[0], yLocal0[2]), RMul(xLocal[2], yLocal0[0])),
            RSub(RMul(xLocal[1], yLocal0[0]), RMul(xLocal[0], yLocal0[1]))), LAMBDA zLocal0 :
    LET rolled == GreaterThanTenToMinus(RAbs(rotation), LengthTolExp)
        cos == Cos(rotation[1])
        sin == Sin(rotation[1])
        yLocal ==
            IF rolled
            THEN [i \in 0..2 |-> RAdd(RMul(yLocal0[i], cos), RMul(zLocal0[i], sin))]
            ELSE yLocal0
        zLocal ==
            IF rolled
            THEN [i \in 0..2 |-> RAdd(RMul(RNeg(yLocal0[i]), sin), RMul(zLocal0[i], cos))]
            ELSE zLocal0
    IN  Ok(transpose(Matrix(3, 3, V3(xLocal, yLocal, zLocal))))
    )))))

\* rotation is a whole number of degrees
createRotationMatrix(iNode, jNode, rotation) ==
    With(Distance(iNode, jNode), LAMBDA L :
    IF LessThanTenToMinus(L, LengthTolExp) THEN Throw("Member has zero length")
    ELSE
    With(V3(RDiv(RSub(jNode.x, iNode.x), L),
            RDiv(RSub(jNode.y, iNode.y), L),
            RDiv(RSub(jNode.z, iNode.z), L)), LAMBDA xLocal :
    With(Sqrt(RAdd(Sq(xLocal[0]), Sq(xLocal[2]))), LAMBDA horizontalLength :
    With(LET cx == xLocal[0]
             cy == xLocal[1]
             cz == xLocal[2]
         IN  IF LessThanTenToMinus(horizontalLength, LengthTolExp)
             THEN IF RLess(Zero, cy) THEN V3(R(-1), Zero, Zero) ELSE V3(One, Zero, Zero)
             ELSE V3(RDiv(RMul(RNeg(cy), cx), horizontalLength),
                     horizontalLength,
                     RDiv(RMul(RNeg(cy), cz), horizontalLength)), LAMBDA yLocal0 :
    With(V3(RSub(RMul(xLocal[1], yLocal0[2]), RMul(xLocal[2], yLocal0[1])),
            RSub(RMul(xLocal[2], yLocal0[0]), RMul(xLocal[0], yLocal0[2])),
            RSub(RMul(xLocal[0], yLocal0[1]), RMul(xLocal[1], yLocal0[0]))), LAMBDA zLocal0 :
    LET rolled == GreaterThanTenToMinus(RAbs(rotation), LengthTolExp)
        cos == Cos(rotation[1])
        sin == Sin(rotation[1])
        yLocal ==
            IF rolled
            THEN [i \in 0..2 |-> RAdd(RMul(yLocal0[i], cos), RMul(zLocal0[i], sin))]
            ELSE yLocal0
        zLocal ==
            IF rolled
            THEN [i \in 0..2 |-> RAdd(RMul(RNeg(yLocal0[i]), sin), RMul(zLocal0[i], cos))]
            ELSE zLocal0
    IN  Ok(transpose(Matrix(3, 3, V3(xLocal, yLocal, zLocal))))
    )))))

createTransformationMatrix(iNode, jNode, rotation) ==
    With(createRotationMatrix(iNode, jNode, rotation), LAMBDA R3 :
        IF R3.threw THEN R3
        ELSE Ok(Matrix(12, 12,
                [i \in 0..11 |-> [j \in 0..11 |->
                    IF i \div 3 = j \div 3
                    THEN R3.value.data[i % 3][j % 3]
                    ELSE Zero]])))

-----------------------------------------------------------------------------
(* Member3DElement.ts: class Member3DElement *)

\* v || dflt on an optional number: undefined and 0 are falsy
OrElse(v, dflt) == IF v = Undefined \/ v = Zero THEN dflt ELSE v

\* v ?? dflt on an optional number
Coalesce(v, dflt) == IF v = Undefined THEN dflt ELSE v

\* new Member3DElement(member, iNode, jNode, material, section)
Member3DElement(member, iNode, jNode, material, section) ==
    LET length == Distance(iNode, jNode)
    IN  IF LessThanTenToMinus(length, LengthTolExp)
        THEN Throw("Member " \o member.id \o " has zero length")
        ELSE Ok([id |-> member.id, iNode |-> iNode, jNode |-> jNode,
                 material |-> material, section |-> section,
                 rotation |-> OrElse(member.rotation, Zero),
                 length |-> length])

\* the 12x12 matrix filled in by localStiffnessMatrix from the element's properties
beamStiffness(E, G, A, Iy, Iz, J, L) ==
    LET L2 == RMul(L, L)
        L3 == RMul(L2, L)
        EA_L == RDiv(RMul(E, A), L)
        GJ_L == RDiv(RMul(G, J), L)
        EIz  == RMul(E, Iz)
        k_y1 == RDiv(RMul(R(12), EIz), L3)
        k_y2 == RDiv(RMul(R(6), EIz), L2)
        k_y3 == RDiv(RMul(R(4), EIz), L)
        k_y4 == RDiv(RMul(R(2), EIz), L)
        EIy  == RMul(E, Iy)
        k_z1 == RDiv(RMul(R(12), EIy), L3)
        k_z2 == RDiv(RMul(R(6), EIy), L2)
        k_z3 == RDiv(RMul(R(4), EIy), L)
        k_z4 == RDiv(RMul(R(2), EIy), L)
    IN  With(
            \* axial (DOF 0, 6)
            (<<0, 0>> :> EA_L) @@ (<<0, 6>> :> RNeg(EA_L)) @@
            (<<6, 0>> :> RNeg(EA_L)) @@ (<<6, 6>> :> EA_L) @@
            \* shear in y and rotation about z (DOF 1, 5, 7, 11)
            (<<1, 1>> :> k_y1) @@ (<<1, 5>> :> k_y2) @@
            (<<1, 7>> :> RNeg(k_y1)) @@ (<<1, 11>> :> k_y2) @@
            (<<5, 1>> :> k_y2) @@ (<<5, 5>> :> k_y3) @@
            (<<5, 7>> :> RNeg(k_y2)) @@ (<<5, 11>> :> k_y4) @@
            (<<7, 1>> :> RNeg(k_y1)) @@ (<<7, 5>> :> RNeg(k_y2)) @@
            (<<7, 7>> :> k_y1) @@ (<<7, 11>> :> RNeg(k_y2)) @@
            (<<11, 1>> :> k_y2) @@ (<<11, 5>> :> k_y4) @@
            (<<11, 7>> :> RNeg(k_y2)) @@ (<<11, 11>> :> k_y3) @@
            \* shear in z and rotation about y (DOF 2, 4, 8, 10)
            (<<2, 2>> :> k_z1) @@ (<<2, 4>> :> RNeg(k_z2)) @@
            (<<2, 8>> :> RNeg(k_z1)) @@ (<<2, 10>> :> RNeg(k_z2)) @@
            (<<4, 2>> :> RNeg(k_z2)) @@ (<<4, 4>> :> k_z3) @@
            (<<4, 8>> :> k_z2) @@ (<<4, 10>> :> k_z4) @@
            (<<8, 2>> :> RNeg(k_z1)) @@ (<<8, 4>> :> k_z2) @@
            (<<8, 8>> :> k_z1) @@ (<<8, 10>> :> k_z2) @@
            (<<10, 2>> :> RNeg(k_z2)) @@ (<<10, 4>> :> k_z4) @@
            (<<10, 8>> :> k_z2) @@ (<<10, 10>> :> k_z3) @@
            \* torsion (DOF 3, 9)
            (<<3, 3>> :> GJ_L) @@ (<<3, 9>> :> RNeg(GJ_L)) @@
            (<<9, 3>> :> RNeg(GJ_L)) @@ (<<9, 9>> :> GJ_L),
        LAMBDA set :
            Matrix(12, 12,
                [i \in 0..11 |-> [j \in 0..11 |->
                    IF <<i, j>> \in DOMAIN set THEN set[<<i, j>>] ELSE Zero]]))

\* Variant of localStiffnessMatrix with Iy and Iz exchanged
localStiffnessMatrixSwapped(el) ==
    beamStiffness(el.material.E, el.material.G, el.section.A,
                  el.section.Iz, el.section.Iy, el.section.J, el.length)

localStiffnessMatrix(el) ==
    beamStiffness(el.material.E, el.material.G, el.section.A,
                  el.section.Iy, el.section.Iz, el.section.J, el.length)

transformationMatrix(el) ==
    createTransformationMatrix(el.iNode, el.jNode, el.rotation)

\* Variant of globalStiffnessMatrix that multiplies by T on the left instead of Tt
globalStiffnessMatrixNoTranspose(el) ==
    With(localStiffnessMatrix(el), LAMBDA kLocal :
    With(transformationMatrix(el), LAMBDA T :
        IF T.threw THEN T
        ELSE With(multiply(T.value, kLocal), LAMBDA TK :
                IF TK.threw THEN TK ELSE multiply(TK.value, T.value))))

\* Tt.multiply(kLocal).multiply(T)
globalStiffnessMatrix(el) ==
    With(localStiffnessMatrix(el), LAMBDA kLocal :
    With(transformationMatrix(el), LAMBDA T :
        IF T.threw THEN T
        ELSE With(multiply(transpose(T.value), kLocal), LAMBDA TtK :
                IF TtK.threw THEN TtK ELSE multiply(TtK.value, T.value))))

\* String.prototype.toUpperCase on the direction tags
toUpperCase(s) ==
    CASE s \in {"FX", "Fx", "fx"} -> "FX"
      [] s \in {"FY", "Fy", "fy"} -> "FY"
      [] s \in {"FZ", "Fz", "fz"} -> "FZ"
      [] s \in {"MX", "Mx", "mx"} -> "MX"
      [] s \in {"MY", "My", "my"} -> "MY"
      [] s \in {"MZ", "Mz", "mz"} -> "MZ"
      [] OTHER -> s

\* load.direction.toUpperCase() when load.direction is undefined
NoDirectionError == "Cannot read properties of undefined (reading 'toUpperCase')"

\* fer[i] += v
Inc(fer, i, v) == [fer EXCEPT ![i] = RAdd(@, v)]

addUniformLoadFER(fer, direction, w, x1, x2, L) ==
    IF /\ LessThanTenToMinus(RAbs(x1), LengthTolExp)
       /\ LessThanTenToMinus(RAbs(RSub(x2, L)), LengthTolExp)
    THEN LET wL  == RMul(w, L)
             wL2 == RMul(RMul(w, L), L)
         IN  CASE direction = "FY" ->
                    Inc(Inc(Inc(Inc(fer, 1, RDiv(wL, R(2))),
                                    5, RDiv(wL2, R(12))),
                                7, RDiv(wL, R(2))),
                            11, RDiv(RNeg(wL2), R(12)))
               [] direction = "FZ" ->
                    Inc(Inc(Inc(Inc(fer, 2, RDiv(wL, R(2))),
                                    4, RDiv(RNeg(wL2), R(12))),
                                8, RDiv(wL, R(2))),
                            10, RDiv(wL2, R(12)))
               [] direction = "FX" ->
                    Inc(Inc(fer, 0, RDiv(wL, R(2))), 6, RDiv(wL, R(2)))
               [] OTHER -> fer
    ELSE LET a == x1
             b == x2
             loadLen == RSub(b, a)
             mid == RDiv(RAdd(a, b), R(2))
             R1 == RDiv(RMul(RMul(w, loadLen), RSub(L, mid)), L)
             R2 == RSub(RMul(w, loadLen), R1)
             M1 == RMul(RMul(w, loadLen),
                        RSub(mid, RDiv(RMul(a, RSub(L, mid)), L)))
         IN  CASE direction = "FY" ->
                    Inc(Inc(Inc(Inc(fer, 1, R1), 7, R2), 5, M1), 11, RNeg(M1))
               [] direction = "FZ" -> Inc(Inc(fer, 2, R1), 8, R2)
               [] direction = "FX" -> Inc(Inc(fer, 0, R1), 6, R2)
               [] OTHER -> fer

\* Variant of addLinearLoadFER whose second part has the whole difference
addLinearLoadFERFullDifference(fer, direction, w1, w2, x1, x2, L) ==
    LET wMin  == RMin(w1, w2)
        wDiff == RAbs(RSub(w2, w1))
    IN  addUniformLoadFER(addUniformLoadFER(fer, direction, wMin, x1, x2, L),
                          direction, wDiff, x1, x2, L)

addLinearLoadFER(fer, direction, w1, w2, x1, x2, L) ==
    LET wMin  == RMin(w1, w2)
        wDiff == RAbs(RSub(w2, w1))
        wAvg  == RDiv(wDiff, R(2))
    IN  addUniformLoadFER(addUniformLoadFER(fer, direction, wMin, x1, x2, L),
                          direction, wAvg, x1, x2, L)

addPointLoadFER(fer, direction, P, a, L) ==
    LET b  == RSub(L, a)
        L2 == RMul(L, L)
        L3 == RMul(L2, L)
        ab == RMul(a, b)
        shearI  == RDiv(RMul(RMul(P, RMul(b, b)), RAdd(RMul(R(3), a), b)), L3)
        shearJ  == RDiv(RMul(RMul(P, RMul(a, a)), RAdd(a, RMul(R(3), b))), L3)
        momentI == RDiv(RMul(RMul(P, a), RMul(b, b)), L2)
        momentJ == RDiv(RMul(RMul(P, RMul(a, a)), b), L2)
        couple  == RDiv(RMul(RMul(R(6), P), ab), L3)
        mI == RDiv(RMul(RMul(P, b), RSub(RMul(R(2), a), b)), L2)
        mJ == RDiv(RMul(RMul(P, a), RSub(RMul(R(2), b), a)), L2)
    IN  CASE direction = "FY" ->
                Inc(Inc(Inc(Inc(fer, 1, shearI), 5, momentI), 7, shearJ), 11, RNeg(momentJ))
          [] direction = "FZ" ->
                Inc(Inc(Inc(Inc(fer, 2, shearI), 4, RNeg(momentI)), 8, shearJ), 10, momentJ)
          [] direction = "FX" ->
                Inc(Inc(fer, 0, RDiv(RMul(P, b), L)), 6, RDiv(RMul(P, a), L))
          [] direction = "MZ" ->
                Inc(Inc(Inc(Inc(fer, 1, couple), 5, mI), 7, RNeg(couple)), 11, mJ)
          [] direction = "MY" ->
                Inc(Inc(Inc(Inc(fer, 2, RNeg(couple)), 4, mI), 8, couple), 10, mJ)
          [] direction = "MX" ->
                Inc(Inc(fer, 3, RDiv(RMul(P, b), L)), 9, RDiv(RMul(P, a), L))
          [] OTHER -> fer

\* the body of the loop over memberLoads in fixedEndReactions, for one load
addLoadFER(el, fer, load) ==
    LET L   == el.length
        dir == toUpperCase(load.direction)
    IN  IF load.type = "distributed"
        THEN LET w1 == OrElse(load.w1, Zero)
                 w2 == Coalesce(load.w2, w1)
                 x1 == RMul(OrElse(load.x1, Zero), L)
                 x2 == RMul(Coalesce(load.x2, One), L)
             IN  IF LessThanTenToMinus(RAbs(RSub(w1, w2)), LengthTolExp)
                 THEN addUniformLoadFER(fer, dir, w1, x1, x2, L)
                 ELSE addLinearLoadFER(fer, dir, w1, w2, x1, x2, L)
        ELSE IF load.type = "point"
        THEN LET P == OrElse(load.magnitude, Zero)
                 x == RMul(OrElse(load.x, Q(1, 2)), L)
             IN  addPointLoadFER(fer, dir, P, x, L)
        ELSE fer

\* the loop over memberLoads in fixedEndReactions, from load i on
RECURSIVE localFER(_, _, _, _)
localFER(el, memberLoads, i, fer) ==
    IF i > Len(memberLoads) THEN Ok(fer)
    ELSE IF memberLoads[i].member # el.id
         THEN localFER(el, memberLoads, i + 1, fer)
    ELSE IF memberLoads[i].direction = UndefinedStr
         THEN Throw(NoDirectionError)
    ELSE localFER(el, memberLoads, i + 1, addLoadFER(el, fer, memberLoads[i]))

\* the 12 entries of a 12 x 1 matrix
columnToArray(M) == Force([i \in 0..11 |-> M.data[i][0]])

fixedEndReactions(el, memberLoads) ==
    With(localFER(el, memberLoads, 1, [i \in 0..11 |-> Zero]), LAMBDA fer :
        IF fer.threw THEN fer
        ELSE
    With(transformationMatrix(el), LAMBDA T :
        IF T.threw THEN T
        ELSE
    With(multiply(transpose(T.value), columnOf(fer.value, 12)), LAMBDA ferGlobal :
        IF ferGlobal.threw THEN ferGlobal
        ELSE Ok(columnToArray(ferGlobal.value)))))

\* the default of computeMemberForces' numPoints
DefaultNumPoints == 11

\* Variant of computeMemberForces that adds the fixed-end reactions to the end forces
computeMemberForcesWithFER(el, displacements, memberLoads, numPoints) ==
    With(transformationMatrix(el), LAMBDA T :
    With(localStiffnessMatrix(el), LAMBDA kLocal :
        IF T.threw THEN T
        ELSE
    With(multiply(T.value, columnOf(displacements, 12)), LAMBDA dLocal :
        IF dLocal.threw THEN dLocal
        ELSE
    With(multiply(kLocal, dLocal.value), LAMBDA fLocal :
        IF fLocal.threw THEN fLocal
        ELSE
    With(fixedEndReactions(el, memberLoads), LAMBDA fer :
    With(columnToArray(fLocal.value), LAMBDA f :
        IF fer.threw THEN fer
        ELSE Ok([p \in 1..numPoints + 1 |->
                LET i == p - 1
                    x == RMul(Q(i, numPoints), el.length)
                    ratio == RDiv(x, el.length)
                IN  [x |-> x,
                     forces |-> [c \in 0..5 |->
                        RAdd(RMul(RAdd(f[c], fer.value[c]), RSub(One, ratio)),
                             RMul(RAdd(f[c + 6], fer.value[c + 6]), ratio))]]])))))))

\* fLocal is computed from the displacements alone; fixedEndReactions is
\* called (and may throw) but its result is not used
computeMemberForces(el, displacements, memberLoads, numPoints) ==
    With(transformationMatrix(el), LAMBDA T :
    With(localStiffnessMatrix(el), LAMBDA kLocal :
        IF T.threw THEN T
        ELSE
    With(multiply(T.value, columnOf(displacements, 12)), LAMBDA dLocal :
        IF dLocal.threw THEN dLocal
        ELSE
    With(multiply(kLocal, dLocal.value), LAMBDA fLocal :
        IF fLocal.threw THEN fLocal
        ELSE
    With(fixedEndReactions(el, memberLoads), LAMBDA fer :
    With(columnToArray(fLocal.value), LAMBDA f :
        IF fer.threw THEN fer
        ELSE Ok([p \in 1..numPoints + 1 |->
                LET i == p - 1
                    x == RMul(Q(i, numPoints), el.length)
                    ratio == RDiv(x, el.length)
                IN  [x |-> x,
                     forces |-> [c \in 0..5 |->
                        RAdd(RMul(f[c], RSub(One, ratio)), RMul(f[c + 6], ratio))]]])))))))

-----------------------------------------------------------------------------
(* Analyzer.ts: class Analyzer *)

\* Map.get after a forEach of Map.set(item[key], ...): the position of the
\* last item of the list whose key is k, 0 when there is none
RECURSIVE LastIndexOf(_, _, _, _)
LastIndexOf(list, keyOf(_), k, i) ==
    IF i = 0 THEN 0
    ELSE IF keyOf(list[i]) = k THEN i ELSE LastIndexOf(list, keyOf, k, i - 1)

\* Array.prototype.find on a name: the position of the first match, 0 when none
RECURSIVE FirstIndexOf(_, _, _, _)
FirstIndexOf(list, keyOf(_), k, i) ==
    IF i > Len(list) THEN 0
    ELSE IF keyOf(list[i]) = k THEN i ELSE FirstIndexOf(list, keyOf, k, i + 1)

IdOf(item) == item.id

NameOf(item) == item.name

SupportNodeOf(support) == support.node

\* nodeIndexMap.get(id): the 0-based index, -1 for undefined
nodeIndexOf(model, id) == LastIndexOf(model.nodes, IdOf, id, Len(model.nodes)) - 1

\* Variant of createElements that raises an error on an unresolved reference
RECURSIVE createElementsStrict(_, _, _)
createElementsStrict(model, i, elements) ==
    IF i > Len(model.members) THEN Ok(elements)
    ELSE LET member == model.members[i]
             n == LastIndexOf(model.nodes, IdOf, member.iNode, Len(model.nodes))
             m == LastIndexOf(model.nodes, IdOf, member.jNode, Len(model.nodes))
             a == LastIndexOf(model.materials, IdOf, member.material, Len(model.materials))
             s == LastIndexOf(model.sections, IdOf, member.section, Len(model.sections))
         IN  IF n = 0 \/ m = 0 \/ a = 0 \/ s = 0
             THEN Throw("Member " \o member.id \o " has an unresolved reference")
             ELSE With(Member3DElement(member, model.nodes[n], model.nodes[m],
                                       model.materials[a], model.sections[s]),
                       LAMBDA el :
                          IF el.threw THEN el
                          ELSE createElementsStrict(model, i + 1, Append(elements, el.value)))

\* the loop over model.members in initialize, from member i on
RECURSIVE createElements(_, _, _)
createElements(model, i, elements) ==
    IF i > Len(model.members) THEN Ok(elements)
    ELSE LET member == model.members[i]
             n == LastIndexOf(model.nodes, IdOf, member.iNode, Len(model.nodes))
             m == LastIndexOf(model.nodes, IdOf, member.jNode, Len(model.nodes))
             a == LastIndexOf(model.materials, IdOf, member.material, Len(model.materials))
             s == LastIndexOf(model.sections, IdOf, member.section, Len(model.sections))
         IN  IF n = 0 \/ m = 0 \/ a = 0 \/ s = 0
             THEN createElements(model, i + 1, elements)
             ELSE With(Member3DElement(member, model.nodes[n], model.nodes[m],
                                       model.materials[a], model.sections[s]),
                       LAMBDA el :
                          IF el.threw THEN el
                          ELSE createElements(model, i + 1, Append(elements, el.value)))

\* the six constraint flags of the node at list position i (1-based)
constraintsOf(model, i) ==
    LET s == LastIndexOf(model.supports, SupportNodeOf, model.nodes[i].id,
                         Len(model.supports))
    IN  IF s = 0 THEN [j \in 0..5 |-> FALSE]
        ELSE LET support == model.supports[s]
             IN  (0 :> support.dx) @@ (1 :> support.dy) @@ (2 :> support.dz) @@
                 (3 :> support.rx) @@ (4 :> support.ry) @@ (5 :> support.rz)

\* Variant of classifyDOF that reads the three translation flags only and
\* takes every rotation as free
RECURSIVE classifyDOFTranslationsOnly(_, _, _, _)
classifyDOFTranslationsOnly(model, fixed, d, acc) ==
    IF d >= Len(model.nodes) * 6 THEN acc
    ELSE classifyDOFTranslationsOnly(model, fixed, d + 1,
            IF (d % 6 < 3 /\ constraintsOf(model, d \div 6 + 1)[d % 6]) = fixed
            THEN Append(acc, d) ELSE acc)

\* the DOF indices 0..numDOF-1 in ascending order whose flag equals `fixed`
RECURSIVE classifyDOF(_, _, _, _)
classifyDOF(model, fixed, d, acc) ==
    IF d >= Len(model.nodes) * 6 THEN acc
    ELSE classifyDOF(model, fixed, d + 1,
            IF constraintsOf(model, d \div 6 + 1)[d % 6] = fixed
            THEN Append(acc, d) ELSE acc)

\* new Analyzer(model): constructor and initialize
initialize(model) ==
    With(createElements(model, 1, <<>>), LAMBDA elements :
        IF elements.threw THEN elements
        ELSE Ok([model |-> model,
                 elements |-> elements.value,
                 numDOF |-> Len(model.nodes) * 6,
                 freeDOF |-> classifyDOF(model, FALSE, 0, <<>>),
                 fixedDOF |-> classifyDOF(model, TRUE, 0, <<>>)]))

\* Variant of the scatter-add that drops the blocks coupling the two end nodes
scatterAddUncoupled(K, n, kGlobal, iIndex, jIndex) ==
    Force([r \in 0..n-1 |-> [c \in 0..n-1 |->
        LET k == kGlobal.data
        IN  RAdd(RAdd(K[r][c],
                IF r \div 6 = iIndex /\ c \div 6 = iIndex THEN k[r % 6][c % 6] ELSE Zero),
                IF r \div 6 = jIndex /\ c \div 6 = jIndex
                THEN k[(r % 6) + 6][(c % 6) + 6] ELSE Zero)]])

\* K.add(dofMap[i], dofMap[j], kGlobal.get(i, j)) for all i, j of one element
scatterAdd(K, n, kGlobal, iIndex, jIndex) ==
    Force([r \in 0..n-1 |-> [c \in 0..n-1 |->
        LET ri == r \div 6 = iIndex
            rj == r \div 6 = jIndex
            ci == c \div 6 = iIndex
            cj == c \div 6 = jIndex
            a == r % 6
            b == c % 6
            k == kGlobal.data
        IN  RAdd(RAdd(RAdd(RAdd(K[r][c],
                IF ri /\ ci THEN k[a][b] ELSE Zero),
                IF ri /\ cj THEN k[a][b + 6] ELSE Zero),
                IF rj /\ ci THEN k[a + 6][b] ELSE Zero),
                IF rj /\ cj THEN k[a + 6][b + 6] ELSE Zero)]])

\* the loop over this.elements in assembleGlobalStiffnessMatrix, from element e on
RECURSIVE assembleFrom(_, _, _)
assembleFrom(an, e, K) ==
    IF e > Len(an.elements) THEN Ok(Matrix(an.numDOF, an.numDOF, K))
    ELSE With(globalStiffnessMatrix(an.elements[e]), LAMBDA kGlobal :
            LET element == an.elements[e]
            IN  IF kGlobal.threw THEN kGlobal
                ELSE assembleFrom(an, e + 1,
                        scatterAdd(K, an.numDOF, kGlobal.value,
                                   nodeIndexOf(an.model, element.iNode.id),
                                   nodeIndexOf(an.model, element.jNode.id))))

assembleGlobalStiffnessMatrix(an) ==
    assembleFrom(an, 1, zeros(an.numDOF, an.numDOF).data)

getDOFOffset(direction) ==
    CASE direction = "FX" -> 0
      [] direction = "FY" -> 1
      [] direction = "FZ" -> 2
      [] direction = "MX" -> 3
      [] direction = "MY" -> 4
      [] direction = "MZ" -> 5
      [] OTHER -> -1

\* the loop over loadCase.nodeLoads in assembleLoadVector, from load i on
RECURSIVE addNodeLoads(_, _, _, _)
addNodeLoads(an, nodeLoads, i, P) ==
    IF i > Len(nodeLoads) THEN Ok(P)
    ELSE LET load == nodeLoads[i]
             nodeIndex == nodeIndexOf(an.model, load.node)
         IN  IF nodeIndex < 0 THEN addNodeLoads(an, nodeLoads, i + 1, P)
             ELSE IF load.direction = UndefinedStr THEN Throw(NoDirectionError)
             ELSE LET dofOffset == getDOFOffset(toUpperCase(load.direction))
                  IN  addNodeLoads(an, nodeLoads, i + 1,
                        IF dofOffset >= 0
                        THEN Inc(P, nodeIndex * 6 + dofOffset, load.magnitude)
                        ELSE P)

\* Variant of subtractFER that leaves out the reactions at end j
subtractFERAtIEnd(P, n, fer, iIndex, jIndex) ==
    Force([d \in 0..n-1 |->
        RSub(P[d], IF d \div 6 = iIndex THEN fer[d % 6] ELSE Zero)])

\* P[iIndex*6 + i] -= fer[i]; P[jIndex*6 + i] -= fer[i + 6] for i in 0..5
subtractFER(P, n, fer, iIndex, jIndex) ==
    Force([d \in 0..n-1 |->
        RSub(RSub(P[d], IF d \div 6 = iIndex THEN fer[d % 6] ELSE Zero),
             IF d \div 6 = jIndex THEN fer[(d % 6) + 6] ELSE Zero)])

\* the loop over this.elements in assembleLoadVector, from element e on
RECURSIVE addMemberLoads(_, _, _, _)
addMemberLoads(an, memberLoads, e, P) ==
    IF e > Len(an.elements) THEN Ok(P)
    ELSE With(fixedEndReactions(an.elements[e], memberLoads), LAMBDA fer :
            LET element == an.elements[e]
            IN  IF fer.threw THEN fer
                ELSE addMemberLoads(an, memberLoads, e + 1,
                        subtractFER(P, an.numDOF, fer.value,
                                    nodeIndexOf(an.model, element.iNode.id),
                                    nodeIndexOf(an.model, element.jNode.id))))

assembleLoadVector(an, loadCase) ==
    With(addNodeLoads(an, loadCase.nodeLoads, 1, [d \in 0..an.numDOF-1 |-> Zero]),
         LAMBDA P :
            IF P.threw THEN P
            ELSE addMemberLoads(an, loadCase.memberLoads, 1, P.value))

emptySummary ==
    [maxDisplacement |-> [nodeId |-> "", value |-> Zero, direction |-> ""],
     maxReaction     |-> [nodeId |-> "", value |-> Zero, direction |-> ""],
     maxMoment       |-> [memberId |-> "", value |-> Zero, location |-> Zero],
     maxShear        |-> [memberId |-> "", value |-> Zero, location |-> Zero]]

\* the object returned by analyze when the combination is missing and by its catch block
failedResult(combinationName, message) ==
    [success |-> FALSE,
     error |-> message,
     loadCase |-> combinationName,
     nodes |-> <<>>,
     members |-> <<>>,
     summary |-> emptySummary]

NodeDOF(v, baseDOF) ==
    [dx |-> v[baseDOF], dy |-> v[baseDOF + 1], dz |-> v[baseDOF + 2],
     rx |-> v[baseDOF + 3], ry |-> v[baseDOF + 4], rz |-> v[baseDOF + 5]]

extractNodeResults(an, D, reactions) ==
    [i \in 1..Len(an.model.nodes) |->
        [nodeId |-> an.model.nodes[i].id,
         displacement |-> NodeDOF(D, (i - 1) * 6),
         reaction |-> NodeDOF(reactions, (i - 1) * 6)]]

\* Variant of findMaxFrom that compares the signed values
RECURSIVE findMaxFromSigned(_, _, _, _, _)
findMaxFromSigned(forces, key, i, maxVal, maxLoc) ==
    IF i > Len(forces) THEN [value |-> maxVal, location |-> maxLoc]
    ELSE IF RLess(maxVal, forces[i][key])
         THEN findMaxFromSigned(forces, key, i + 1, forces[i][key], forces[i].x)
         ELSE findMaxFromSigned(forces, key, i + 1, maxVal, maxLoc)

\* the loop of findMax over the samples, from sample i on
RECURSIVE findMaxFrom(_, _, _, _, _)
findMaxFrom(forces, key, i, maxVal, maxLoc) ==
    IF i > Len(forces) THEN [value |-> maxVal, location |-> maxLoc]
    ELSE IF RLess(RAbs(maxVal), RAbs(forces[i][key]))
         THEN findMaxFrom(forces, key, i + 1, forces[i][key], forces[i].x)
         ELSE findMaxFrom(forces, key, i + 1, maxVal, maxLoc)

findMax(forces, key) == findMaxFrom(forces, key, 1, Zero, Zero)

\* the member loads of one load case that belong to element elId, times factor
scaledLoads(loadCase, factor, elId) ==
    LET own == SelectSeq(loadCase.memberLoads, LAMBDA ml : ml.member = elId)
    IN  [k \in 1..Len(own) |->
            [own[k] EXCEPT !.magnitude = RMul(OrElse(@, Zero), factor),
                           !.w1 = RMul(OrElse(@, Zero), factor),
                           !.w2 = RMul(OrElse(@, Zero), factor)]]

\* the loop over Object.entries(combo.factors) in extractMemberResults, from entry i on
RECURSIVE combinedLoads(_, _, _, _)
combinedLoads(an, combo, elId, i) ==
    IF i > Len(combo.factors) THEN <<>>
    ELSE LET lc == FirstIndexOf(an.model.loadCases, NameOf, combo.factors[i].case, 1)
         IN  (IF lc = 0 THEN <<>>
              ELSE scaledLoads(an.model.loadCases[lc], combo.factors[i].factor, elId))
             \o combinedLoads(an, combo, elId, i + 1)

\* the callback of this.elements.map in extractMemberResults
memberResultOf(an, element, D, combo) ==
    LET iIndex == nodeIndexOf(an.model, element.iNode.id)
        jIndex == nodeIndexOf(an.model, element.jNode.id)
        elementD == [k \in 0..11 |->
                        IF k < 6 THEN D[iIndex * 6 + k] ELSE D[jIndex * 6 + (k - 6)]]
    IN  With(computeMemberForces(element, elementD,
                combinedLoads(an, combo, element.id, 1), DefaultNumPoints),
             LAMBDA forcePoints :
        IF forcePoints.threw THEN forcePoints
        ELSE With([p \in 1..Len(forcePoints.value) |->
                    [x       |-> forcePoints.value[p].x,
                     axial   |-> forcePoints.value[p].forces[0],
                     shearY  |-> forcePoints.value[p].forces[1],
                     shearZ  |-> forcePoints.value[p].forces[2],
                     torsion |-> forcePoints.value[p].forces[3],
                     momentY |-> forcePoints.value[p].forces[4],
                     momentZ |-> forcePoints.value[p].forces[5]]],
                  LAMBDA forces :
                Ok([memberId |-> element.id,
                    forces |-> forces,
                    maxForces |-> [axial   |-> findMax(forces, "axial"),
                                   shearY  |-> findMax(forces, "shearY"),
                                   shearZ  |-> findMax(forces, "shearZ"),
                                   momentY |-> findMax(forces, "momentY"),
                                   momentZ |-> findMax(forces, "momentZ")]])))

RECURSIVE extractMemberResultsFrom(_, _, _, _, _)
extractMemberResultsFrom(an, D, combo, e, acc) ==
    IF e > Len(an.elements) THEN Ok(acc)
    ELSE With(memberResultOf(an, an.elements[e], D, combo), LAMBDA r :
            IF r.threw THEN r
            ELSE extractMemberResultsFrom(an, D, combo, e + 1, Append(acc, r.value)))

extractMemberResults(an, D, combo) == extractMemberResultsFrom(an, D, combo, 1, <<>>)

\* the loops of computeSummary over the nodes; k counts (node, direction) pairs
RECURSIVE maxNodeValue(_, _, _, _)
maxNodeValue(nodes, field, k, best) ==
    IF k >= Len(nodes) * 3 THEN best
    ELSE LET node == nodes[k \div 3 + 1]
             dir == <<"dx", "dy", "dz">>[(k % 3) + 1]
             v == node[field][dir]
         IN  maxNodeValue(nodes, field, k + 1,
                IF RLess(RAbs(best.value), RAbs(v))
                THEN [nodeId |-> node.nodeId, value |-> v, direction |-> dir]
                ELSE best)

\* the loop of computeSummary over the members for one force component
RECURSIVE maxMemberValue(_, _, _, _)
maxMemberValue(members, key, i, best) ==
    IF i > Len(members) THEN best
    ELSE LET m == members[i].maxForces[key]
         IN  maxMemberValue(members, key, i + 1,
                IF RLess(RAbs(best.value), RAbs(m.value))
                THEN [memberId |-> members[i].memberId, value |-> m.value,
                      location |-> m.location]
                ELSE best)

computeSummary(nodes, members) ==
    [maxDisplacement |-> maxNodeValue(nodes, "displacement", 0, emptySummary.maxDisplacement),
     maxReaction     |-> maxNodeValue(nodes, "reaction", 0, emptySummary.maxReaction),
     maxMoment       |-> maxMemberValue(members, "momentZ", 1, emptySummary.maxMoment),
     maxShear        |-> maxMemberValue(members, "shearY", 1, emptySummary.maxShear)]

\* Variant of the accumulation that leaves the factor out
addUnscaled(P, n, factor, caseP) ==
    Force([d \in 0..n-1 |-> RAdd(P[d], caseP[d])])

\* P[i] += factor * caseP[i] for every DOF
addScaled(P, n, factor, caseP) ==
    Force([d \in 0..n-1 |-> RAdd(P[d], RMul(factor, caseP[d]))])

\* the loop over Object.entries(combo.factors) in analyze, from entry i on
RECURSIVE combineLoadVectors(_, _, _, _)
combineLoadVectors(an, combo, i, P) ==
    IF i > Len(combo.factors) THEN Ok(P)
    ELSE LET lc == FirstIndexOf(an.model.loadCases, NameOf, combo.factors[i].case, 1)
         IN  IF lc = 0 THEN combineLoadVectors(an, combo, i + 1, P)
             ELSE With(assembleLoadVector(an, an.model.loadCases[lc]), LAMBDA caseP :
                    IF caseP.threw THEN caseP
                    ELSE combineLoadVectors(an, combo, i + 1,
                            addScaled(P, an.numDOF, combo.factors[i].factor, caseP.value)))

\* the locals of an analyze call that did not get as far as assembling K
NoLocals == [assembled |-> FALSE, reached |-> FALSE]

\* the locals of an analyze call that assembled K and then threw
AssembledLocals(K) == [assembled |-> TRUE, reached |-> FALSE, K |-> K.data]

NotFoundError(combinationName) ==
    "Load combination '" \o combinationName \o "' not found"

\* the try block of analyze once the combination is found: the result, or the
\* exception, together with the locals K, P, D, reactions
analyzeCombo(an, combinationName, combo) ==
    With(assembleGlobalStiffnessMatrix(an), LAMBDA K :
        IF K.threw THEN K @@ [locals |-> NoLocals]
        ELSE
    With(combineLoadVectors(an, combo, 1, [d \in 0..an.numDOF-1 |-> Zero]), LAMBDA P :
        IF P.threw THEN P @@ [locals |-> AssembledLocals(K.value)]
        ELSE
    With(subMatrix(K.value, an.freeDOF, an.freeDOF), LAMBDA K11 :
    With(extractVector(P.value, an.freeDOF), LAMBDA P1 :
    With(solve(K11, P1, Len(an.freeDOF)), LAMBDA D1 :
        IF D1.threw THEN D1 @@ [locals |-> AssembledLocals(K.value)]
        ELSE
    With(setVector([d \in 0..an.numDOF-1 |-> Zero], an.numDOF, an.freeDOF, D1.value),
         LAMBDA D :
    With(multiplyVector(K.value, D, an.numDOF), LAMBDA KD :
        IF KD.threw THEN KD @@ [locals |-> AssembledLocals(K.value)]
        ELSE
    With(Force([d \in 0..an.numDOF-1 |-> RSub(KD.value[d], P.value[d])]),
         LAMBDA reactions :
    With(extractNodeResults(an, D, reactions), LAMBDA nodeResults :
    With(extractMemberResults(an, D, combo), LAMBDA memberResults :
        IF memberResults.threw THEN memberResults @@ [locals |-> AssembledLocals(K.value)]
        ELSE [threw |-> FALSE,
              value |-> [success |-> TRUE,
                         error |-> UndefinedStr,
                         loadCase |-> combinationName,
                         nodes |-> nodeResults,
                         members |-> memberResults.value,
                         summary |-> computeSummary(nodeResults, memberResults.value)],
              locals |-> [assembled |-> TRUE, reached |-> TRUE, K |-> K.value.data,
                          P |-> P.value, D1 |-> D1.value, D |-> D,
                          reactions |-> reactions]]
    ))))))))))

\* the try block of analyze: the result, or the exception thrown inside it
tryAnalyze(an, combinationName) ==
    LET c == FirstIndexOf(an.model.loadCombinations, NameOf, combinationName, 1)
    IN  IF c = 0
        THEN [threw |-> FALSE,
              value |-> failedResult(combinationName, NotFoundError(combinationName)),
              locals |-> NoLocals]
        ELSE analyzeCombo(an, combinationName, an.model.loadCombinations[c])

\* Variant of analyze without its catch block: an exception of the try block escapes
analyzeRunNoCatch(an, combinationName) ==
    With(tryAnalyze(an, combinationName), LAMBDA t :
        IF t.threw
        THEN [threw |-> TRUE, error |-> t.error, caught |-> FALSE, locals |-> t.locals]
        ELSE [threw |-> FALSE, result |-> t.value, caught |-> FALSE, locals |-> t.locals])

\* analyze(combinationName): try and catch, with the locals of the call.  The
\* catch block turns every exception of the try block into a failed result;
\* `caught` tells that it ran
analyzeRun(an, combinationName) ==
    With(tryAnalyze(an, combinationName), LAMBDA t :
        IF t.threw
        THEN [threw |-> FALSE,
              result |-> failedResult(combinationName, t.error),
              caught |-> TRUE,
              locals |-> t.locals]
        ELSE [threw |-> FALSE, result |-> t.value, caught |-> FALSE, locals |-> t.locals])

\* Variant in which analyze scales the nodal loads of the model in place
analyzerAfterAnalyzeScaling(an, combinationName) ==
    [an EXCEPT !.model.loadCases =
        [c \in 1..Len(@) |->
            [@[c] EXCEPT !.nodeLoads =
                [k \in 1..Len(@) |-> [@[k] EXCEPT !.magnitude = RMul(R(2), @)]]]]]

\* the Analyzer object after analyze(combinationName): analyze assigns no field
\* and changes no object reachable from one
analyzerAfterAnalyze(an, combinationName) == an

-----------------------------------------------------------------------------
(* validator.ts and parser.ts.  A finding is [path, severity]; the message  *)
(* text and the line number derived from the path are left out.  Every      *)
(* document of the model has all the lists of a StanalModel, so the         *)
(* `|| []` defaults of validateModel are not exercised.                     *)

Finding(path, severity) == [path |-> path, severity |-> severity]

\* !s for an optional string
Falsy(s) == s = "" \/ s = UndefinedStr

\* `${list}[${i}]` for the item at sequence position k
PathOf(list, k) == list \o "[" \o ToString(k - 1) \o "]"

\* list.forEach(check) on the items 1..k: their findings, in order
RECURSIVE ForEach(_, _)
ForEach(check(_), k) ==
    IF k = 0 THEN <<>> ELSE ForEach(check, k - 1) \o check(k)

\* the id check shared by materials, sections, nodes and members: missing, or
\* a duplicate of an id that an earlier item added to the set
idFindings(list, k, path) ==
    IF Falsy(list[k].id) THEN <<Finding(path \o ".id", "error")>>
    ELSE IF \E e \in 1..k-1 : list[e].id = list[k].id
         THEN <<Finding(path \o ".id", "error")>>
         ELSE <<>>

\* x <= 0
NotPositive(x) == ~RLess(Zero, x)

validateModelInfo(model) ==
    IF model.model = Undefined THEN <<Finding("model", "error")>>
    ELSE (IF Falsy(model.model.name) THEN <<Finding("model.name", "warning")>> ELSE <<>>)
         \o (IF model.model.units = Undefined
             THEN <<Finding("model.units", "warning")>> ELSE <<>>)

validateMaterials(materials) ==
    LET check(k) ==
            LET mat == materials[k]
                path == PathOf("materials", k)
            IN  idFindings(materials, k, path)
                \o (IF NotPositive(mat.E) THEN <<Finding(path \o ".E", "error")>> ELSE <<>>)
                \o (IF NotPositive(mat.G) THEN <<Finding(path \o ".G", "error")>> ELSE <<>>)
                \o (IF RLess(mat.nu, Zero) \/ ~RLess(mat.nu, Q(1, 2))
                    THEN <<Finding(path \o ".nu", "error")>> ELSE <<>>)
    IN  ForEach(check, Len(materials))

validateSections(sections) ==
    LET check(k) ==
            LET sec == sections[k]
                path == PathOf("sections", k)
            IN  idFindings(sections, k, path)
                \o (IF NotPositive(sec.A) THEN <<Finding(path \o ".A", "error")>> ELSE <<>>)
                \o (IF NotPositive(sec.Iy) THEN <<Finding(path \o ".Iy", "error")>> ELSE <<>>)
                \o (IF NotPositive(sec.Iz) THEN <<Finding(path \o ".Iz", "error")>> ELSE <<>>)
                \o (IF NotPositive(sec.J) THEN <<Finding(path \o ".J", "error")>> ELSE <<>>)
    IN  ForEach(check, Len(sections))

validateNodes(nodes) ==
    LET check(k) ==
            LET node == nodes[k]
                path == PathOf("nodes", k)
            IN  idFindings(nodes, k, path)
                \o (IF node.x = Undefined \/ node.y = Undefined \/ node.z = Undefined
                    THEN <<Finding(path, "error")>> ELSE <<>>)
    IN  IF Len(nodes) = 0 THEN <<Finding("nodes", "warning")>>
        ELSE ForEach(check, Len(nodes))

\* the ids of a list, as the Set built from list.map(x => x.id)
IdsOf(list) == {list[k].id : k \in 1..Len(list)}

validateMembers(members, nodes, materials, sections) ==
    LET check(k) ==
            LET member == members[k]
                path == PathOf("members", k)
            IN  idFindings(members, k, path)
                \o (IF Falsy(member.iNode) \/ member.iNode \notin IdsOf(nodes)
                    THEN <<Finding(path \o ".iNode", "error")>> ELSE <<>>)
                \o (IF Falsy(member.jNode) \/ member.jNode \notin IdsOf(nodes)
                    THEN <<Finding(path \o ".jNode", "error")>> ELSE <<>>)
                \o (IF member.iNode = member.jNode
                    THEN <<Finding(path, "error")>> ELSE <<>>)
                \o (IF Falsy(member.material) \/ member.material \notin IdsOf(materials)
                    THEN <<Finding(path \o ".material", "error")>> ELSE <<>>)
                \o (IF Falsy(member.section) \/ member.section \notin IdsOf(sections)
                    THEN <<Finding(path \o ".section", "error")>> ELSE <<>>)
    IN  IF Len(members) = 0 THEN <<Finding("members", "warning")>>
        ELSE ForEach(check, Len(members))

\* the positions of the supports that added their node to supportedNodes
RECURSIVE supportedBefore(_, _, _)
supportedBefore(supports, nodes, k) ==
    IF k = 0 THEN {}
    ELSE LET before == supportedBefore(supports, nodes, k - 1)
             node == supports[k].node
         IN  IF ~Falsy(node) /\ node \in IdsOf(nodes) /\ node \notin before
             THEN before \cup {node} ELSE before

validateSupports(supports, nodes) ==
    LET check(k) ==
            LET support == supports[k]
                path == PathOf("supports", k)
            IN  (IF Falsy(support.node) \/ support.node \notin IdsOf(nodes)
                 THEN <<Finding(path \o ".node", "error")>>
                 ELSE IF support.node \in supportedBefore(supports, nodes, k - 1)
                      THEN <<Finding(path \o ".node", "warning")>>
                      ELSE <<>>)
                \o (IF ~(support.dx \/ support.dy \/ support.dz \/
                         support.rx \/ support.ry \/ support.rz)
                    THEN <<Finding(path, "warning")>> ELSE <<>>)
    IN  ForEach(check, Len(supports))

\* the name check shared by load cases and combinations
nameFindings(list, k, path) ==
    IF Falsy(list[k].name) THEN <<Finding(path \o ".name", "error")>>
    ELSE IF \E e \in 1..k-1 : ~Falsy(list[e].name) /\ list[e].name = list[k].name
         THEN <<Finding(path \o ".name", "error")>>
         ELSE <<>>

validateLoadCases(loadCases, nodes, members) ==
    LET check(k) ==
            LET lc == loadCases[k]
                path == PathOf("loadCases", k)
                nodeLoad(j) ==
                    IF lc.nodeLoads[j].node \notin IdsOf(nodes)
                    THEN <<Finding(PathOf(path \o ".nodeLoads", j) \o ".node", "error")>>
                    ELSE <<>>
                memberLoad(j) ==
                    IF lc.memberLoads[j].member \notin IdsOf(members)
                    THEN <<Finding(PathOf(path \o ".memberLoads", j) \o ".member", "error")>>
                    ELSE <<>>
            IN  nameFindings(loadCases, k, path)
                \o ForEach(nodeLoad, Len(lc.nodeLoads))
                \o ForEach(memberLoad, Len(lc.memberLoads))
    IN  ForEach(check, Len(loadCases))

validateLoadCombinations(combinations, loadCases) ==
    LET caseNames == {loadCases[k].name : k \in 1..Len(loadCases)}
        check(k) ==
            LET combo == combinations[k]
                path == PathOf("loadCombinations", k)
                factor(j) ==
                    IF combo.factors[j].case \notin caseNames
                    THEN <<Finding(path \o ".factors", "error")>> ELSE <<>>
            IN  nameFindings(combinations, k, path)
                \o ForEach(factor, Len(combo.factors))
    IN  ForEach(check, Len(combinations))

\* Variant of validateStructuralStability without the check of the Z translation
validateStructuralStabilityNoDz(model) ==
    IF Len(model.supports) = 0 THEN <<Finding("supports", "error")>>
    ELSE (IF Cardinality({k \in 1..Len(model.supports) : model.supports[k].dx}) = 0
          THEN <<Finding("supports", "error")>> ELSE <<>>)
         \o (IF Cardinality({k \in 1..Len(model.supports) : model.supports[k].dy}) = 0
             THEN <<Finding("supports", "error")>> ELSE <<>>)

\* the number of supports that constrain direction dir
ConstraintCount(supports, dir) ==
    Cardinality({k \in 1..Len(supports) : supports[k][dir]})

validateStructuralStability(model) ==
    IF Len(model.supports) = 0 THEN <<Finding("supports", "error")>>
    ELSE (IF ConstraintCount(model.supports, "dx") = 0
          THEN <<Finding("supports", "error")>> ELSE <<>>)
         \o (IF ConstraintCount(model.supports, "dy") = 0
             THEN <<Finding("supports", "error")>> ELSE <<>>)
         \o (IF ConstraintCount(model.supports, "dz") = 0
             THEN <<Finding("supports", "error")>> ELSE <<>>)

validateModel(model) ==
    validateModelInfo(model)
    \o validateMaterials(model.materials)
    \o validateSections(model.sections)
    \o validateNodes(model.nodes)
    \o validateMembers(model.members, model.nodes, model.materials, model.sections)
    \o validateSupports(model.supports, model.nodes)
    \o validateLoadCases(model.loadCases, model.nodes, model.members)
    \o validateLoadCombinations(model.loadCombinations, model.loadCases)
    \o validateStructuralStability(model)

\* the text of a document: not JSON at all, or the JSON of a model
NotJson == [json |-> FALSE]

JsonOf(model) == [json |-> TRUE, value |-> model]

NoModel == [loaded |-> FALSE]

\* parseStanalFile(content): without a model when JSON.parse throws, failed
\* with the model when validateModel reports any finding
parseStanalFile(content) ==
    IF ~content.json
    THEN [success |-> FALSE, model |-> NoModel, errors |-> <<Finding("", "error")>>]
    ELSE With(validateModel(content.value), LAMBDA validationErrors :
            IF Len(validationErrors) > 0
            THEN [success |-> FALSE,
                  model |-> [loaded |-> TRUE, value |-> content.value],
                  errors |-> validationErrors]
            ELSE [success |-> TRUE,
                  model |-> [loaded |-> TRUE, value |-> content.value],
                  errors |-> <<>>])

-----------------------------------------------------------------------------
(* The models analysed *)

\* member lengths 1..MaxLen
MaxLen == 2

\* load magnitudes 1..MaxLoad
MaxLoad == 2

\* analyze calls made on one Analyzer
MaxCalls == 3

Node(id, x, y, z) == [id |-> id, x |-> R(x), y |-> R(y), z |-> R(z)]

Member(id, iNode, jNode, rotation) ==
    [id |-> id, iNode |-> iNode, jNode |-> jNode, material |-> "Steel",
     section |-> "S1", rotation |-> rotation]

Support(node, dx, dy, dz, rx, ry, rz) ==
    [node |-> node, dx |-> dx, dy |-> dy, dz |-> dz, rx |-> rx, ry |-> ry, rz |-> rz]

NodeLoad(node, direction, magnitude) ==
    [node |-> node, direction |-> direction, magnitude |-> magnitude]

PointLoad(member, direction, magnitude, x) ==
    [member |-> member, type |-> "point", direction |-> direction,
     magnitude |-> magnitude, w1 |-> Undefined, w2 |-> Undefined,
     x1 |-> Undefined, x2 |-> Undefined, x |-> x]

MomentLoad(member, direction, magnitude, x) ==
    [member |-> member, type |-> "moment", direction |-> direction,
     magnitude |-> magnitude, w1 |-> Undefined, w2 |-> Undefined,
     x1 |-> Undefined, x2 |-> Undefined, x |-> x]

DistributedLoad(member, direction, w1, w2, x1, x2) ==
    [member |-> member, type |-> "distributed", direction |-> direction,
     magnitude |-> Undefined, w1 |-> w1, w2 |-> w2, x1 |-> x1, x2 |-> x2,
     x |-> Undefined]

Geometries == {"beam", "inclined", "column", "frame", "coincident", "selfloop", "dangling"}

Supports == {"fixedI", "none", "fixedBoth", "noDx", "noDy", "noDz", "propped"}

Loadings == {"nodal", "point", "uniform", "pointAtI", "pointAtJ", "partial", "moment", "mixed"}

\* the parameters of a model; Base is the cantilever of unit length under a unit tip load
Base == [geom |-> "beam", len |-> 1, roll |-> 0, sup |-> "fixedI",
         load |-> "nodal", mag |-> 1, broken |-> FALSE]

Params ==
    [geom : Geometries, len : 1..MaxLen, roll : {0, 90}, sup : Supports,
     load : Loadings, mag : 1..MaxLoad, broken : BOOLEAN]

\* the number of parameters in which p differs from Base
Deviations(p) ==
    Cardinality({f \in DOMAIN p : p[f] # Base[f]})

\* models that differ from Base in at most two parameters; the length only
\* matters for the geometries that have one
DocParams ==
    {p \in Params : /\ Deviations(p) <= 2
                    /\ p.geom \in {"inclined", "coincident", "selfloop"} => p.len = 1}

NodesOf(p) ==
    CASE p.geom = "beam"       -> <<Node("N1", 0, 0, 0), Node("N2", p.len, 0, 0)>>
      [] p.geom = "inclined"   -> <<Node("N1", 0, 0, 0), Node("N2", 3, 4, 0)>>
      [] p.geom = "column"     -> <<Node("N1", 0, 0, 0), Node("N2", 0, -p.len, 0)>>
      [] p.geom = "frame"      -> <<Node("N1", 0, 0, 0), Node("N2", 0, p.len, 0),
                                    Node("N3", p.len, p.len, 0)>>
      [] p.geom = "coincident" -> <<Node("N1", 0, 0, 0), Node("N2", 0, 0, 0)>>
      [] p.geom = "selfloop"   -> <<Node("N1", 0, 0, 0), Node("N2", 1, 0, 0)>>
      [] p.geom = "dangling"   -> <<Node("N1", 0, 0, 0), Node("N2", p.len, 0, 0)>>

MembersOf(p) ==
    LET rotation == IF p.roll = 0 THEN Undefined ELSE R(p.roll)
    IN  CASE p.geom = "frame" ->
                <<Member("M1", "N1", "N2", rotation), Member("M2", "N2", "N3", Undefined)>>
          [] p.geom = "selfloop" -> <<Member("M1", "N1", "N1", rotation)>>
          [] p.geom = "dangling" ->
                <<Member("M0", "N1", "N9", Undefined),
                  Member("M1", "N1", "N2", rotation),
                  [Member("M2", "N2", "N1", Undefined) EXCEPT !.section = "S9"]>>
          [] OTHER -> <<Member("M1", "N1", "N2", rotation)>>

LastNodeOf(p) == IF p.geom = "frame" THEN "N3" ELSE "N2"

SupportsOf(p) ==
    CASE p.sup = "none"      -> <<>>
      [] p.sup = "fixedI"    -> <<Support("N1", TRUE, TRUE, TRUE, TRUE, TRUE, TRUE)>>
      [] p.sup = "fixedBoth" -> <<Support("N1", TRUE, TRUE, TRUE, TRUE, TRUE, TRUE),
                                  Support(LastNodeOf(p), TRUE, TRUE, TRUE, TRUE, TRUE, TRUE)>>
      [] p.sup = "noDx"      -> <<Support("N1", FALSE, TRUE, TRUE, TRUE, TRUE, TRUE)>>
      [] p.sup = "noDy"      -> <<Support("N1", TRUE, FALSE, TRUE, TRUE, TRUE, TRUE)>>
      [] p.sup = "noDz"      -> <<Support("N1", TRUE, TRUE, FALSE, TRUE, TRUE, TRUE)>>
      [] p.sup = "propped"   -> <<Support("N1", TRUE, TRUE, TRUE, TRUE, TRUE, TRUE),
                                  Support(LastNodeOf(p), FALSE, TRUE, FALSE, FALSE, FALSE, FALSE)>>

\* load case A: the loading of the model; load case B: a horizontal nodal load
\* and, when broken, a nodal load without direction.  The mixed loading has
\* nodal loads in several directions, two of them on one DOF, and loads on
\* both members of the frame
LoadCasesOf(p) ==
    <<[name |-> "A",
       nodeLoads |->
            CASE p.load = "nodal" -> <<NodeLoad(LastNodeOf(p), "Fy", R(-p.mag))>>
              [] p.load = "mixed" -> <<NodeLoad(LastNodeOf(p), "fy", R(-p.mag)),
                                       NodeLoad(LastNodeOf(p), "Mz", R(p.mag)),
                                       NodeLoad("N2", "FY", R(-1)),
                                       NodeLoad("N2", "fz", R(3)),
                                       NodeLoad("N1", "mx", R(1))>>
              [] OTHER -> <<>>,
       memberLoads |->
            CASE p.load = "nodal"    -> <<>>
              [] p.load = "point"    -> <<PointLoad("M1", "FY", R(p.mag), Q(1, 4))>>
              [] p.load = "pointAtI" -> <<PointLoad("M1", "FY", R(p.mag), Zero)>>
              [] p.load = "pointAtJ" -> <<PointLoad("M1", "FY", R(p.mag), One)>>
              [] p.load = "moment"   -> <<MomentLoad("M1", "MZ", R(p.mag), Q(1, 2))>>
              [] p.load = "uniform"  ->
                    <<DistributedLoad("M1", "fy", R(p.mag), Undefined, Undefined, Undefined)>>
              [] p.load = "partial"  ->
                    <<DistributedLoad("M1", "FY", R(p.mag), Undefined, Zero, Q(1, 2))>>
              [] p.load = "mixed"    ->
                    <<PointLoad("M1", "FY", R(p.mag), Q(1, 4)),
                      DistributedLoad("M2", "FY", R(p.mag), Undefined, Undefined, Undefined)>>],
      [name |-> "B",
       nodeLoads |-> <<NodeLoad(LastNodeOf(p), "FX", R(p.mag))>>
                     \o (IF p.broken
                         THEN <<NodeLoad("N2", UndefinedStr, R(1))>>
                         ELSE <<>>),
       memberLoads |-> <<>>]>>

Factor(case, factor) == [case |-> case, factor |-> factor]

\* the mixed loading also has a combination of both cases
LoadCombinationsOf(p) ==
    <<[name |-> "1.0A", factors |-> <<Factor("A", R(1))>>],
      [name |-> "1.0B", factors |-> <<Factor("B", R(1))>>],
      [name |-> "2.0A", factors |-> <<Factor("A", R(2))>>]>>
    \o (IF p.load = "mixed"
        THEN <<[name |-> "A+2B", factors |-> <<Factor("A", R(1)), Factor("B", R(2))>>]>>
        ELSE <<>>)

Doc(p) ==
    [model |-> [name |-> "Model", units |-> [length |-> "mm", force |-> "kN"]],
     nodes |-> NodesOf(p),
     materials |-> <<[id |-> "Steel", E |-> R(2), G |-> R(1), nu |-> Q(3, 10), rho |-> R(1)]>>,
     sections |-> <<[id |-> "S1", A |-> R(1), Iy |-> R(1), Iz |-> R(3), J |-> R(1)]>>,
     members |-> MembersOf(p),
     supports |-> SupportsOf(p),
     loadCases |-> LoadCasesOf(p),
     loadCombinations |-> LoadCombinationsOf(p)]

Docs == {Doc(p) : p \in DocParams}

\* the model every other one is a variation of
BaseDoc == Doc(Base)

\* the names analyze is called with: the combinations and a name no model has
CallNames == {"1.0A", "1.0B", "2.0A", "A+2B", "missing"}

-----------------------------------------------------------------------------
(* The core driven directly: new Analyzer(model), then analyze calls *)

NoAnalyzer == [constructed |-> FALSE]

\* PreviewPanel.currentPanel === undefined
NoPanel == [open |-> FALSE]

\* the globals of the extension and the position of its command
extVars == <<currentModel, currentResults, pc, idx, shown, diagnostics, previewPanel>>

\* the state of the core driven directly
coreVars == <<input, snapshot, escaped, calls, last>>

\* an empty Map
EmptyMap == <<>>

\* the Analyzer objects of the models whose construction does not throw
Analyzers == {initialize(m).value : m \in {d \in Docs : ~initialize(d).threw}}

\* analyze tabulated on the Analyzer objects and names of the model
AnalysisTable ==
    Force([an \in Analyzers |-> [name \in CallNames |-> analyzeRun(an, name)]])

\* analyzer.analyze(name), read from the table where it is tabulated
analyzeCall(an, name) ==
    IF an \in DOMAIN AnalysisTable THEN AnalysisTable[an][name] ELSE analyzeRun(an, name)

\* no call of Matrix.solve under way
NoSolve == [pc |-> "none"]

\* no call made on the element
NoCall == [op |-> "none"]

\* no Member3DElement constructed
NoElement == [made |-> FALSE, call |-> NoCall]

Init ==
    /\ solver = NoSolve
    /\ memberElement = NoElement
    /\ input = NoModel
    /\ analyzer = NoAnalyzer
    /\ snapshot = NoAnalyzer
    /\ escaped = ""
    /\ calls = <<>>
    /\ last = NoLocals @@ [caught |-> FALSE]
    /\ currentModel = NoModel
    /\ currentResults = EmptyMap
    /\ pc = "idle"
    /\ idx = 0
    /\ shown = ""
    /\ diagnostics = <<>>
    /\ previewPanel = NoPanel

\* const analyzer = new Analyzer(m)
Construct(m) ==
    /\ input = NoModel
    /\ input' = [loaded |-> TRUE, value |-> m]
    /\ \E r \in {initialize(m)} :
           /\ analyzer' = IF r.threw THEN NoAnalyzer ELSE r.value
           /\ snapshot' = analyzer'
           /\ escaped' = IF r.threw THEN r.error ELSE ""
    /\ UNCHANGED <<calls, last, extVars, solver, memberElement>>

\* analyzer.analyze(name)
Call(name) ==
    /\ analyzer # NoAnalyzer
    /\ escaped = ""
    /\ Len(calls) < MaxCalls
    /\ \E r \in {analyzeCall(analyzer, name)} :
           /\ escaped' = IF r.threw THEN r.error ELSE ""
           /\ calls' = IF r.threw THEN calls
                       ELSE Append(calls, [name |-> name, result |-> r.result])
           /\ last' = r.locals @@ [caught |-> r.caught]
    /\ analyzer' = analyzerAfterAnalyze(analyzer, name)
    /\ UNCHANGED <<input, snapshot, extVars, solver, memberElement>>

Next ==
    \/ \E m \in Docs : Construct(m)
    \/ \E name \in CallNames : Call(name)

Spec == Init /\ [][Next]_vars


-----------------------------------------------------------------------------
(* extension.ts: validateDocument, showPreview and runAnalysis on the       *)
(* globals currentModel and currentResults.  The progress callback of       *)
(* runAnalysis contains no await, so no other handler runs between its      *)
(* steps; its loop is modelled one iteration per step so that the           *)
(* intermediate Map can be examined.  Of the preview panel only the model   *)
(* and the results it holds are kept; the output channel is not modelled.   *)

\* the models a document can hold
ExtDocParams ==
    {Base,
     [Base EXCEPT !.broken = TRUE],
     [Base EXCEPT !.load = "uniform"],
     [Base EXCEPT !.geom = "frame"],
     [Base EXCEPT !.geom = "coincident"],
     [Base EXCEPT !.geom = "selfloop"],
     [Base EXCEPT !.sup = "none"],
     [Base EXCEPT !.sup = "noDx"],
     [Base EXCEPT !.sup = "noDy"],
     [Base EXCEPT !.sup = "noDz"],
     [Base EXCEPT !.sup = "fixedBoth", !.load = "point"]}

\* the base model without a name
Unnamed == [BaseDoc EXCEPT !.model.name = ""]

\* the base model with a second support on the supported node
SupportedTwice ==
    [BaseDoc EXCEPT !.supports = Append(@, Support("N1", TRUE, TRUE, TRUE, TRUE, TRUE, TRUE))]

\* the base model with a support that constrains nothing
SupportWithoutConstraint ==
    [BaseDoc EXCEPT !.supports =
        Append(@, Support("N2", FALSE, FALSE, FALSE, FALSE, FALSE, FALSE))]

\* models on which validateModel reports warnings only
WarningDocs == {Unnamed, SupportedTwice, SupportWithoutConstraint}

\* the active editor: none, or a .stanal document with its text
NoEditor == [open |-> FALSE]

\* the texts a .stanal document can have
Texts ==
    {NotJson} \cup {JsonOf(Doc(p)) : p \in ExtDocParams}
              \cup {JsonOf(d) : d \in WarningDocs}

Editors == {NoEditor} \cup {[open |-> TRUE, text |-> t] : t \in Texts}

\* the active editor when the preview is asked for
PreviewEditors ==
    {NoEditor} \cup {[open |-> TRUE, text |-> t] : t \in {NotJson, JsonOf(BaseDoc), JsonOf(Unnamed)}}

OpenFileWarning == "Please open a .stanal file first."

ParseFailedMessage == "Failed to parse model. Please fix errors first."

AnalysisFailedMessage(errorMessage) == "Analysis failed: " \o errorMessage

AnalysisCompletedMessage(n) ==
    "Analysis completed for " \o ToString(n)
        \o " load combination(s). Use \"Show Results\" to see details."

NoResultsWarning == "No analysis results available. Run analysis first."

\* Map.prototype.set on a Map kept as the sequence of its entries in insertion order
MapSetFresh(map, key, value) == <<[key |-> key, value |-> value]>>

MapSet(map, key, value) ==
    IF \E k \in 1..Len(map) : map[k].key = key
    THEN [k \in 1..Len(map) |->
            IF map[k].key = key THEN [key |-> key, value |-> value] ELSE map[k]]
    ELSE Append(map, [key |-> key, value |-> value])

\* Variant of validateDocument that takes the model of every document that
\* is JSON, whatever validation found
ValidateDocumentAnyModel(text) ==
    /\ pc = "idle"
    /\ \E result \in {parseStanalFile(text)} :
           /\ diagnostics' = result.errors
           /\ currentModel' = IF result.model.loaded THEN result.model ELSE currentModel
    /\ UNCHANGED <<coreVars, analyzer, currentResults, pc, idx, shown, previewPanel,
                   solver, memberElement>>

\* validateDocument(document): the diagnostics of the document, and
\* currentModel when the document parses
ValidateDocument(text) ==
    /\ pc = "idle"
    /\ \E result \in {parseStanalFile(text)} :
           /\ diagnostics' = result.errors
           /\ currentModel' = IF result.success /\ result.model.loaded
                              THEN result.model ELSE currentModel
    /\ UNCHANGED <<coreVars, analyzer, currentResults, pc, idx, shown, previewPanel,
                   solver, memberElement>>

\* runAnalysis() up to the call of its progress callback
RunAnalysis(editor) ==
    /\ pc = "idle"
    /\ IF ~editor.open
       THEN /\ shown' = OpenFileWarning
            /\ UNCHANGED <<currentModel, pc>>
       ELSE \E result \in {parseStanalFile(editor.text)} :
                IF ~result.success \/ ~result.model.loaded
                THEN /\ shown' = ParseFailedMessage
                     /\ UNCHANGED <<currentModel, pc>>
                ELSE /\ currentModel' = result.model
                     /\ pc' = "progress"
                     /\ UNCHANGED shown
    /\ UNCHANGED <<coreVars, analyzer, currentResults, idx, diagnostics, previewPanel,
                   solver, memberElement>>

\* the progress callback up to its loop: new Analyzer(currentModel) and the
\* fresh Map, or the catch block when the constructor throws
NewAnalyzer ==
    /\ pc = "progress"
    /\ \E r \in {initialize(currentModel.value)} :
           IF r.threw
           THEN /\ shown' = AnalysisFailedMessage(r.error)
                /\ pc' = "idle"
                /\ UNCHANGED <<analyzer, currentResults, idx>>
           ELSE /\ analyzer' = r.value
                /\ currentResults' = EmptyMap
                /\ idx' = 0
                /\ pc' = "loop"
                /\ UNCHANGED shown
    /\ UNCHANGED <<coreVars, currentModel, diagnostics, previewPanel, solver, memberElement>>

\* one iteration of the loop over the combinations
AnalyzeNext ==
    /\ pc = "loop"
    /\ idx < Len(currentModel.value.loadCombinations)
    /\ \E r \in {analyzeCall(analyzer,
                    currentModel.value.loadCombinations[idx + 1].name)} :
       LET combo == currentModel.value.loadCombinations[idx + 1]
       IN  IF r.threw
           THEN /\ shown' = AnalysisFailedMessage(r.error)
                /\ pc' = "idle"
                /\ analyzer' = NoAnalyzer
                /\ UNCHANGED <<currentResults, idx>>
           ELSE /\ currentResults' = MapSet(currentResults, combo.name, r.result)
                /\ idx' = idx + 1
                /\ analyzer' = analyzerAfterAnalyze(analyzer, combo.name)
                /\ UNCHANGED <<shown, pc>>
    /\ UNCHANGED <<coreVars, currentModel, diagnostics, previewPanel, solver, memberElement>>

\* PreviewPanel.updateResults(results) on the panel
updateResults(panel, results) == [panel EXCEPT !.results = results]

\* PreviewPanel.updateModel(model) on the panel
updateModel(panel, model) == [panel EXCEPT !.model = model]

\* PreviewPanel.createOrShow(extensionUri, model, results): the open panel
\* takes both, a new panel is constructed with both
createOrShow(panel, model, results) ==
    IF panel.open
    THEN updateResults(updateModel(panel, model), results)
    ELSE [open |-> TRUE, model |-> model, results |-> results]

\* the end of the progress callback: the completion message, the results
\* handed to the open preview panel, then showResults(), which warns when
\* the Map is empty
FinishAnalysis ==
    /\ pc = "loop"
    /\ idx = Len(currentModel.value.loadCombinations)
    /\ shown' = IF Len(currentResults) = 0 THEN NoResultsWarning
                ELSE AnalysisCompletedMessage(idx)
    /\ previewPanel' = IF previewPanel.open
                       THEN updateResults(previewPanel, currentResults)
                       ELSE previewPanel
    /\ pc' = "idle"
    /\ analyzer' = NoAnalyzer
    /\ UNCHANGED <<coreVars, currentModel, currentResults, idx, diagnostics, solver, memberElement>>

\* showPreview(context): the model of the active editor and the results
\* held at that moment go to the preview panel
ShowPreview(editor) ==
    /\ pc = "idle"
    /\ IF ~editor.open
       THEN /\ shown' = OpenFileWarning
            /\ UNCHANGED <<currentModel, previewPanel>>
       ELSE \E result \in {parseStanalFile(editor.text)} :
                IF ~result.success \/ ~result.model.loaded
                THEN /\ shown' = ParseFailedMessage
                     /\ UNCHANGED <<currentModel, previewPanel>>
                ELSE /\ currentModel' = result.model
                     /\ previewPanel' = createOrShow(previewPanel, result.model.value,
                                                     currentResults)
                     /\ UNCHANGED shown
    /\ UNCHANGED <<coreVars, analyzer, currentResults, pc, idx, diagnostics, solver, memberElement>>

\* PreviewPanel.dispose(), run when the user closes the panel
DisposePanel ==
    /\ pc = "idle"
    /\ previewPanel.open
    /\ previewPanel' = NoPanel
    /\ UNCHANGED <<coreVars, analyzer, currentModel, currentResults, pc, idx, shown,
                   diagnostics, solver, memberElement>>

NextExt ==
    \/ \E text \in Texts : ValidateDocument(text)
    \/ \E editor \in Editors : RunAnalysis(editor)
    \/ NewAnalyzer
    \/ AnalyzeNext
    \/ FinishAnalysis
    \/ \E editor \in PreviewEditors : ShowPreview(editor)
    \/ DisposePanel

SpecExt == Init /\ [][NextExt]_vars

-----------------------------------------------------------------------------
(* Matrix.solve called on its own, one step of its loops at a time: the     *)
(* shape checks, then for every k the pivot search, the row swap and the    *)
(* elimination below the pivot, then the check of the last diagonal entry   *)
(* and the back substitution.  The steps are the operators that solve is    *)
(* built from.                                                              *)

\* matrix entries -1..MaxCoef
MaxCoef == 2

Coefs == -1..MaxCoef

\* the rows of the 3 x 3 matrices solved
Rows3 == {<<2, -1, 0>>, <<-1, 2, -1>>, <<0, -1, 2>>, <<0, 0, 1>>, <<1, 1, 1>>}

\* the rows x cols matrix with integer entries entry[i][j], rows and columns from 0
IntMatrix(rows, cols, entry) ==
    Matrix(rows, cols, [i \in 0..rows-1 |-> [j \in 0..cols-1 |-> R(entry[i][j])]])

\* the right-hand sides of length len
RightSides(len) == {[i \in 0..len-1 |-> R(v[i])] : v \in [0..len-1 -> 1..2]}

\* the calls this.solve(b): square systems of size 0 to 3, and calls whose
\* matrix is not square or whose b has the wrong length
SolveCalls ==
    UNION {{[M |-> IntMatrix(n, n, e), b |-> b, len |-> n] :
                e \in [0..n-1 -> [0..n-1 -> Coefs]], b \in RightSides(n)} : n \in 0..2}
    \cup {[M |-> IntMatrix(3, 3, [i \in 0..2 |-> [j \in 0..2 |-> r[i][j + 1]]]),
           b |-> b, len |-> 3] :
            r \in [0..2 -> Rows3], b \in RightSides(3)}
    \cup UNION {{[M |-> IntMatrix(d[1], d[2], [i \in 0..2 |-> [j \in 0..2 |-> 1]]),
                  b |-> b, len |-> d[3]] : b \in RightSides(d[3])} :
                d \in {<<1, 2, 1>>, <<2, 1, 2>>, <<2, 3, 3>>, <<2, 2, 1>>, <<2, 2, 3>>,
                        <<1, 1, 0>>, <<0, 0, 1>>}}

\* the receiver M and the argument b of a call, and the locals of solve:
\* n, pivot, k, maxRow, and the entries A and x of the objects that the
\* locals A and x refer to; objectA and objectX name these objects
SolveLocals(call) ==
    [pc |-> "enter", M |-> call.M, b |-> call.b, len |-> call.len,
     n |-> 0, A |-> <<>>, x |-> <<>>, pivot |-> <<>>, k |-> 0, maxRow |-> 0,
     error |-> "", objectA |-> "result", objectX |-> "result",
     operation |-> "solve", out |-> <<>>]

\* a write to the entries of A and x reaches the receiver and the argument
\* when the locals refer to these objects themselves
Written(locals) ==
    [locals EXCEPT
        !.M = IF locals.objectA = "this" THEN Matrix(@.rows, @.cols, locals.A) ELSE @,
        !.b = IF locals.objectX = "argument" THEN locals.x ELSE @]

InitSolve ==
    /\ solver \in {SolveLocals(call) : call \in SolveCalls}
    /\ memberElement = NoElement
    /\ input = NoModel
    /\ analyzer = NoAnalyzer
    /\ snapshot = NoAnalyzer
    /\ escaped = ""
    /\ calls = <<>>
    /\ last = NoLocals @@ [caught |-> FALSE]
    /\ currentModel = NoModel
    /\ currentResults = EmptyMap
    /\ pc = "idle"
    /\ idx = 0
    /\ shown = ""
    /\ diagnostics = <<>>
    /\ previewPanel = NoPanel

\* the two shape checks and the copies of this and b
SolveEnter ==
    /\ solver.pc = "enter"
    /\ solver' =
        IF solver.M.rows # solver.M.cols
        THEN [solver EXCEPT !.pc = "threw", !.error = "Matrix must be square for solving"]
        ELSE IF solver.M.rows # solver.len
        THEN [solver EXCEPT !.pc = "threw",
                            !.error = "Vector b length must match matrix rows"]
        ELSE [solver EXCEPT !.pc = "find",
                            !.n = solver.M.rows,
                            !.A = clone(solver.M).value.data,
                            !.objectA = clone(solver.M).object,
                            !.x = spread(solver.b).value,
                            !.objectX = spread(solver.b).object,
                            !.pivot = [i \in 0..solver.M.rows-1 |-> i],
                            !.k = 0]
    /\ UNCHANGED <<coreVars, analyzer, extVars, memberElement>>

\* the pivot search of iteration k
FindPivotRow ==
    /\ solver.pc = "find"
    /\ solver.k < solver.n - 1
    /\ solver' = [solver EXCEPT
            !.maxRow = FindPivot(solver.A, solver.n, solver.k, solver.k + 1,
                                 RAbs(solver.A[solver.k][solver.k]), solver.k),
            !.pc = "swap"]
    /\ UNCHANGED <<coreVars, analyzer, extVars, memberElement>>

\* the swap of rows k and maxRow in A, x and pivot
SwapPivotRows ==
    /\ solver.pc = "swap"
    /\ solver' = Written([solver EXCEPT
            !.A = SwapRows(solver.A, solver.k, solver.maxRow),
            !.x = SwapRows(solver.x, solver.k, solver.maxRow),
            !.pivot = SwapRows(solver.pivot, solver.k, solver.maxRow),
            !.pc = "eliminate"])
    /\ UNCHANGED <<coreVars, analyzer, extVars, memberElement>>

\* the pivot check and the elimination below the pivot of iteration k; k++
EliminateColumn ==
    /\ solver.pc = "eliminate"
    /\ solver' =
        IF LessThanTenToMinus(RAbs(solver.A[solver.k][solver.k]), PivotTolExp)
        THEN [solver EXCEPT !.pc = "threw", !.error = SingularError]
        ELSE Written([solver EXCEPT
                !.A = Eliminate(solver.A, solver.x, solver.n, solver.k).A,
                !.x = Eliminate(solver.A, solver.x, solver.n, solver.k).x,
                !.k = solver.k + 1,
                !.pc = "find"])
    /\ UNCHANGED <<coreVars, analyzer, extVars, memberElement>>

\* the check of A.get(n - 1, n - 1) after the loop
CheckLastDiagonal ==
    /\ solver.pc = "find"
    /\ ~(solver.k < solver.n - 1)
    /\ solver' =
        IF solver.n = 0
        THEN [solver EXCEPT !.pc = "threw", !.error = NoRowError]
        ELSE IF LessThanTenToMinus(RAbs(solver.A[solver.n - 1][solver.n - 1]), PivotTolExp)
        THEN [solver EXCEPT !.pc = "threw", !.error = SingularError]
        ELSE [solver EXCEPT !.pc = "back"]
    /\ UNCHANGED <<coreVars, analyzer, extVars, memberElement>>

\* the back substitution loop and `return x`
BackSubstitution ==
    /\ solver.pc = "back"
    /\ solver' = Written([solver EXCEPT
            !.x = BackSubstitute(solver.A, solver.x, solver.n, solver.n - 1),
            !.pc = "done"])
    /\ UNCHANGED <<coreVars, analyzer, extVars, memberElement>>

\* the value-returning operations other than solve
Operations ==
    {"plus", "minus", "scale", "multiply", "multiplyVector", "transpose", "subMatrix",
     "clone"}

\* the indices 0..n-1 in descending order
Descending(n) == [i \in 1..n |-> n - i]

\* what the operation returns on receiver M with the arguments made of M and
\* b: its transpose as the other matrix, b as the vector, b[0] as the scalar,
\* all rows in reverse and all columns as the index lists
Operate(operation, M, b, len) ==
    CASE operation = "plus" -> plus(M, transpose(M))
      [] operation = "minus" -> minus(M, transpose(M))
      [] operation = "scale" -> Ok(scale(M, IF len > 0 THEN b[0] ELSE Zero))
      [] operation = "multiply" -> multiply(M, transpose(M))
      [] operation = "multiplyVector" -> multiplyVector(M, b, len)
      [] operation = "transpose" -> Ok(transpose(M))
      [] operation = "subMatrix" ->
            Ok(subMatrix(M, Descending(M.rows), Descending(M.cols)))
      [] operation = "clone" -> Ok(clone(M).value)

\* this.<operation>(...) instead of this.solve(b): every operation builds
\* its result in a new Matrix or array and writes nowhere else
CallOperation(operation) ==
    /\ solver.pc = "enter"
    /\ solver' = [solver EXCEPT !.pc = "returned",
                                !.operation = operation,
                                !.out = Operate(operation, solver.M, solver.b, solver.len)]
    /\ UNCHANGED <<coreVars, analyzer, extVars, memberElement>>

NextSolve ==
    \/ \E operation \in Operations : CallOperation(operation)
    \/ SolveEnter
    \/ FindPivotRow
    \/ SwapPivotRows
    \/ EliminateColumn
    \/ CheckLastDiagonal
    \/ BackSubstitution

SpecSolve == InitSolve /\ [][NextSolve]_vars

-----------------------------------------------------------------------------
(* Member3DElement and createRotationMatrix called on their own: an element *)
(* is constructed between two end points, then fixedEndReactions and        *)
(* computeMemberForces are called on it with loads and displacements drawn  *)
(* from small sets.  None of these methods assigns to a field of the        *)
(* element, so one call per constructed element is followed.                *)

\* sample counts 1..MaxPoints passed to computeMemberForces
MaxPoints == 3

\* the vector from end i to end j: along an axis, in a plane, in space, null
Offsets ==
    {<<l, 0, 0>> : l \in 1..MaxLen} \cup {<<0, l, 0>> : l \in 1..MaxLen}
        \cup {<<0, -1, 0>>, <<0, 0, 1>>, <<0, 0, 0>>, <<3, 4, 0>>, <<-3, -4, 0>>,
              <<4, 0, 3>>, <<0, 3, 4>>, <<3, 12, 4>>}

\* the offsets of the elements constructed: along X with lengths 1..MaxLen,
\* along Y and Z, in two planes, null
MemberOffsets ==
    {<<l, 0, 0>> : l \in 1..MaxLen}
        \cup {<<0, 1, 0>>, <<0, 0, 1>>, <<0, 0, 0>>, <<3, 4, 0>>, <<4, 0, 3>>}

Origins == {<<0, 0, 0>>, <<1, -1, 2>>}

\* roll angles in degrees
Rolls == {Zero, R(90), R(180), R(-90)}

\* the end nodes at origin o and o + f
EndsAt(o, f) ==
    [iNode |-> Node("N1", o[1], o[2], o[3]),
     jNode |-> Node("N2", o[1] + f[1], o[2] + f[2], o[3] + f[3])]

\* the member loads given to fixedEndReactions: one distributed load, one
\* point load, a load of another member followed by a load of this one
ElementLoads ==
    {<<DistributedLoad("M1", dir, R(w1), w2, span[1], span[2])>> :
        dir \in {"FX", "FY", "FZ"},
        w1 \in -MaxLoad..MaxLoad,
        w2 \in {Undefined} \cup {R(w) : w \in -MaxLoad..MaxLoad},
        span \in {<<Undefined, Undefined>>, <<Zero, Q(1, 2)>>, <<Q(1, 4), Q(3, 4)>>}}
    \cup
    {<<PointLoad("M1", dir, R(P), x)>> :
        dir \in {"FX", "FY", "FZ", "MZ"},
        P \in 1..MaxLoad,
        x \in {Undefined, Zero, Q(1, 4), Q(1, 2), One}}
    \cup
    {<<PointLoad("M2", "FY", R(1), Q(1, 2)),
       DistributedLoad("M1", "fy", R(w), Undefined, Undefined, Undefined)>> :
        w \in 1..MaxLoad}

\* the end displacements given to computeMemberForces: one unit DOF, or all
ElementDisplacements ==
    {[k \in 0..11 |-> IF k = q THEN One ELSE Zero] : q \in 0..11}
        \cup {[k \in 0..11 |-> R(k - 5)]}

\* the member loads given to computeMemberForces
ForceLoads ==
    {<<>>,
     <<DistributedLoad("M1", "FY", R(MaxLoad), Undefined, Undefined, Undefined)>>,
     <<PointLoad("M1", "FZ", R(1), Q(1, 4))>>}

\* the material and the section of the element: those of the models
ElementMaterial == Doc(Base).materials[1]

ElementSection == Doc(Base).sections[1]

\* the sample counts; the call without this argument uses DefaultNumPoints
PointCounts == (1..MaxPoints) \cup {DefaultNumPoints}

InitElement ==
    /\ memberElement = NoElement
    /\ solver = NoSolve
    /\ input = NoModel
    /\ analyzer = NoAnalyzer
    /\ snapshot = NoAnalyzer
    /\ escaped = ""
    /\ calls = <<>>
    /\ last = NoLocals @@ [caught |-> FALSE]
    /\ currentModel = NoModel
    /\ currentResults = EmptyMap
    /\ pc = "idle"
    /\ idx = 0
    /\ shown = ""
    /\ diagnostics = <<>>
    /\ previewPanel = NoPanel

\* new Member3DElement(member, iNode, jNode, material, section)
NewMember(ends, rotation) ==
    /\ ~memberElement.made
    /\ memberElement.call = NoCall
    /\ memberElement' =
        [made |-> TRUE,
         obj  |-> Member3DElement(Member("M1", "N1", "N2", rotation),
                                  ends.iNode, ends.jNode,
                                  ElementMaterial, ElementSection),
         call |-> NoCall]
    /\ UNCHANGED <<coreVars, analyzer, extVars, solver>>

\* memberElement.fixedEndReactions(loads)
CallFixedEndReactions(loads) ==
    /\ memberElement.made
    /\ ~memberElement.obj.threw
    /\ memberElement.call = NoCall
    /\ memberElement' = [memberElement EXCEPT !.call =
            [op |-> "fixedEndReactions", loads |-> loads,
             out |-> fixedEndReactions(memberElement.obj.value, loads)]]
    /\ UNCHANGED <<coreVars, analyzer, extVars, solver>>

\* memberElement.computeMemberForces(displacements, loads, numPoints)
CallComputeMemberForces(displacements, loads, numPoints) ==
    /\ memberElement.made
    /\ ~memberElement.obj.threw
    /\ memberElement.call = NoCall
    /\ memberElement' = [memberElement EXCEPT !.call =
            [op |-> "computeMemberForces", displacements |-> displacements,
             loads |-> loads, numPoints |-> numPoints,
             out |-> computeMemberForces(memberElement.obj.value, displacements,
                                         loads, numPoints)]]
    /\ UNCHANGED <<coreVars, analyzer, extVars, solver>>

\* createRotationMatrix(iNode, jNode, rotation)
CallCreateRotationMatrix(ends, rotation) ==
    /\ ~memberElement.made
    /\ memberElement.call = NoCall
    /\ memberElement' = [memberElement EXCEPT !.call =
            [op |-> "createRotationMatrix", iNode |-> ends.iNode,
             jNode |-> ends.jNode, rotation |-> rotation,
             out |-> createRotationMatrix(ends.iNode, ends.jNode, rotation)]]
    /\ UNCHANGED <<coreVars, analyzer, extVars, solver>>

NextElement ==
    \/ \E f \in MemberOffsets, rotation \in {Undefined, R(90)} :
            NewMember(EndsAt(<<0, 0, 0>>, f), rotation)
    \/ \E loads \in ElementLoads : CallFixedEndReactions(loads)
    \/ \E d \in ElementDisplacements, numPoints \in PointCounts, loads \in ForceLoads :
            CallComputeMemberForces(d, loads, numPoints)
    \/ \E o \in Origins, f \in Offsets, rotation \in Rolls :
            CallCreateRotationMatrix(EndsAt(o, f), rotation)

SpecElement == InitElement /\ [][NextElement]_vars

-----------------------------------------------------------------------------
(* Properties of the core *)

\* the load combination called `name` in the analyzer's model, as a set of at most one
CombosNamed(name) ==
    {c \in 1..Len(analyzer.model.loadCombinations) :
        analyzer.model.loadCombinations[c].name = name}

\* the shape of the failed result for combination `name`
IsFailedResult(r, name) ==
    /\ r.success = FALSE
    /\ r.error # UndefinedStr
    /\ Len(r.error) > 0
    /\ r.loadCase = name
    /\ r.nodes = <<>>
    /\ r.members = <<>>
    /\ r.summary.maxDisplacement = [nodeId |-> "", value |-> Zero, direction |-> ""]
    /\ r.summary.maxReaction = [nodeId |-> "", value |-> Zero, direction |-> ""]
    /\ r.summary.maxMoment = [memberId |-> "", value |-> Zero, location |-> Zero]
    /\ r.summary.maxShear = [memberId |-> "", value |-> Zero, location |-> Zero]

\* C1: analyze never throws on a constructed Analyzer.  No exception escapes a
\* call; a call for a name that no combination has, and a call whose try block
\* raised an error, return the failed result (success = false, a non-empty
\* error, loadCase = name, no nodes, no members, the all-zero summary); and
\* the Analyzer object stays what its constructor made it.
C1_AnalyzeNeverThrows ==
    /\ analyzer # NoAnalyzer => escaped = ""
    /\ analyzer = snapshot
    /\ \A i \in 1..Len(calls) :
          /\ CombosNamed(calls[i].name) = {} => ~calls[i].result.success
          /\ ~calls[i].result.success => IsFailedResult(calls[i].result, calls[i].name)
    /\ last.caught => ~calls[Len(calls)].result.success

\* a call for a missing combination followed by a call whose try block threw
C1_Witness ==
    /\ Len(calls) = 2
    /\ calls[1].name = "missing"
    /\ IsFailedResult(calls[1].result, "missing")
    /\ CombosNamed(calls[2].name) # {}
    /\ last.caught
    /\ IsFailedResult(calls[2].result, calls[2].name)

\* the members of model m that join two distinct nodes with the same coordinates
ZeroLengthMembers(m) ==
    {k \in 1..Len(m.members) :
        \E a, b \in 1..Len(m.nodes) :
            /\ m.nodes[a].id = m.members[k].iNode
            /\ m.nodes[b].id = m.members[k].jNode
            /\ m.nodes[a].id # m.nodes[b].id
            /\ <<m.nodes[a].x, m.nodes[a].y, m.nodes[a].z>>
                 = <<m.nodes[b].x, m.nodes[b].y, m.nodes[b].z>>}

\* C2: for a model with a zero-length member, constructing the Analyzer and
\* calling analyze lets no exception escape the core, and every requested
\* combination gets a success = false result.
C2_ZeroLengthReported ==
    (input.loaded /\ ZeroLengthMembers(input.value) # {}) =>
        /\ escaped = ""
        /\ analyzer # NoAnalyzer
        /\ \A i \in 1..Len(calls) : ~calls[i].result.success

\* some global translation that no support of model m constrains
FreeTranslations(m) ==
    {dir \in {"dx", "dy", "dz"} : \A s \in 1..Len(m.supports) : ~m.supports[s][dir]}

\* the error a call for combination c must report on a model with a free
\* translation: the singular-matrix error, unless assembling the loads of the
\* combination already raised one
ExpectedSingularError(c) ==
    With(combineLoadVectors(analyzer, analyzer.model.loadCombinations[c], 1,
                            [d \in 0..analyzer.numDOF-1 |-> Zero]),
         LAMBDA P : IF P.threw THEN P.error ELSE SingularError)

\* C3: on a model without supports, or whose supports leave one of the three
\* global translations unconstrained at every node, analyze of an existing
\* combination returns success = false, with the singular-matrix error of
\* Matrix.solve whenever the load vector could be assembled.
C3_SingularDetected ==
    \A i \in 1..Len(calls) :
        \A c \in CombosNamed(calls[i].name) :
            FreeTranslations(analyzer.model) # {} =>
                /\ ~calls[i].result.success
                /\ calls[i].result.error = ExpectedSingularError(c)

\* a call on a model whose only support leaves dz free reported the singular error
C3_Witness ==
    /\ Len(calls) = 1
    /\ CombosNamed(calls[1].name) # {}
    /\ analyzer.model.supports # <<>>
    /\ FreeTranslations(analyzer.model) = {"dz"}
    /\ last.assembled
    /\ calls[1].result.error = SingularError


Double(v) == RMul(R(2), v)

DOFNames == {"dx", "dy", "dz", "rx", "ry", "rz"}

ForceNames == {"axial", "shearY", "shearZ", "torsion", "momentY", "momentZ"}

ExtremaNames == {"axial", "shearY", "shearZ", "momentY", "momentZ"}

\* every quantity of result r2 is twice that of result r1
IsTwice(r1, r2) ==
    /\ r1.success = r2.success
    /\ r1.success =>
        /\ Len(r1.nodes) = Len(r2.nodes)
        /\ \A n \in 1..Len(r1.nodes) :
              /\ r2.nodes[n].nodeId = r1.nodes[n].nodeId
              /\ \A c \in DOFNames :
                    /\ r2.nodes[n].displacement[c] = Double(r1.nodes[n].displacement[c])
                    /\ r2.nodes[n].reaction[c] = Double(r1.nodes[n].reaction[c])
        /\ Len(r1.members) = Len(r2.members)
        /\ \A m \in 1..Len(r1.members) :
              /\ r2.members[m].memberId = r1.members[m].memberId
              /\ Len(r2.members[m].forces) = Len(r1.members[m].forces)
              /\ \A p \in 1..Len(r1.members[m].forces) :
                    /\ r2.members[m].forces[p].x = r1.members[m].forces[p].x
                    /\ \A k \in ForceNames :
                          r2.members[m].forces[p][k] = Double(r1.members[m].forces[p][k])
              /\ \A k \in ExtremaNames :
                    /\ r2.members[m].maxForces[k].value
                         = Double(r1.members[m].maxForces[k].value)
                    /\ r2.members[m].maxForces[k].location
                         = r1.members[m].maxForces[k].location
        /\ \A q \in {"maxDisplacement", "maxReaction", "maxMoment", "maxShear"} :
              r2.summary[q] = [r1.summary[q] EXCEPT !.value = Double(@)]

\* combination b weighs the single load case of combination a by 2 instead of 1
IsDoubled(a, b) ==
    /\ Len(a.factors) = 1
    /\ Len(b.factors) = 1
    /\ a.factors[1].case = b.factors[1].case
    /\ a.factors[1].factor = R(1)
    /\ b.factors[1].factor = R(2)

\* C6: for a combination with factors {A: 2} over a single load case, every
\* result quantity (node displacements and reactions, sampled member forces,
\* extrema, summary values) is exactly twice that of the combination {A: 1}
\* on the same model.
C6_Linearity ==
    \A i, j \in 1..Len(calls) :
        \A a \in CombosNamed(calls[i].name), b \in CombosNamed(calls[j].name) :
            IsDoubled(analyzer.model.loadCombinations[a], analyzer.model.loadCombinations[b])
                => IsTwice(calls[i].result, calls[j].result)

\* both combinations analysed with success on a model with a member load
C6_Witness ==
    /\ Len(calls) = 2
    /\ calls[1].name = "1.0A"
    /\ calls[2].name = "2.0A"
    /\ calls[1].result.success
    /\ calls[2].result.success
    /\ analyzer.model.loadCases[1].memberLoads # <<>>
    /\ calls[1].result.summary.maxDisplacement.value # Zero
    /\ calls[1].result.summary.maxMoment.value # Zero
    /\ calls[2].result.summary.maxMoment.value
         = Double(calls[1].result.summary.maxMoment.value)


FullyFixed(s) == s.dx /\ s.dy /\ s.dz /\ s.rx /\ s.ry /\ s.rz

\* model m has two nodes joined by one member without roll that runs along
\* global X from the first node to the second
IsSingleMemberAlongX(m) ==
    /\ Len(m.nodes) = 2
    /\ Len(m.members) = 1
    /\ m.members[1].iNode = m.nodes[1].id
    /\ m.members[1].jNode = m.nodes[2].id
    /\ m.members[1].rotation \in {Undefined, Zero}
    /\ m.nodes[1].y = m.nodes[2].y
    /\ m.nodes[1].z = m.nodes[2].z
    /\ RLess(m.nodes[1].x, m.nodes[2].x)

\* the cantilever: the first node fully fixed, the second free
IsCantilever(m) ==
    /\ IsSingleMemberAlongX(m)
    /\ Len(m.supports) = 1
    /\ m.supports[1].node = m.nodes[1].id
    /\ FullyFixed(m.supports[1])

\* the load cases of model m that combination c weighs by 1 and nothing else
UnitCases(m, c) ==
    {k \in 1..Len(m.loadCases) :
        /\ Len(c.factors) = 1
        /\ c.factors[1].factor = R(1)
        /\ c.factors[1].case = m.loadCases[k].name}

\* load case lc is one downward nodal load in FY on the second node
IsTipLoad(m, lc) ==
    /\ lc.memberLoads = <<>>
    /\ Len(lc.nodeLoads) = 1
    /\ lc.nodeLoads[1].node = m.nodes[2].id
    /\ lc.nodeLoads[1].direction \in {"FY", "Fy", "fy"}
    /\ RLess(lc.nodeLoads[1].magnitude, Zero)

Cube(v) == RMul(v, RMul(v, v))

\* C7: on the cantilever along global X (N1 fully fixed, N2 free, member
\* without roll) with a nodal load -P in FY at N2 under a factor-1
\* combination, analyze succeeds, the dy displacement of N2 is
\* -P*L^3/(3*E*Iz) and the dy reaction of N1 is +P.
C7_Cantilever ==
    \A i \in 1..Len(calls) :
        \A c \in CombosNamed(calls[i].name) :
            \A k \in UnitCases(analyzer.model, analyzer.model.loadCombinations[c]) :
                LET m == analyzer.model
                    r == calls[i].result
                    P == RNeg(m.loadCases[k].nodeLoads[1].magnitude)
                    L == RSub(m.nodes[2].x, m.nodes[1].x)
                    E == m.materials[1].E
                    Iz == m.sections[1].Iz
                IN  (IsCantilever(m) /\ IsTipLoad(m, m.loadCases[k])) =>
                        /\ r.success
                        /\ r.nodes[2].displacement.dy
                             = RNeg(RDiv(RMul(P, Cube(L)), RMul(R(3), RMul(E, Iz))))
                        /\ r.nodes[1].reaction.dy = P

\* the cantilever of length 2 under the tip load -2, analysed with success
C7_Witness ==
    /\ Len(calls) = 1
    /\ calls[1].name = "1.0A"
    /\ IsCantilever(analyzer.model)
    /\ IsTipLoad(analyzer.model, analyzer.model.loadCases[1])
    /\ analyzer.model.nodes[2].x = R(2)
    /\ analyzer.model.loadCases[1].nodeLoads[1].magnitude = R(-2)
    /\ calls[1].result.success
    /\ calls[1].result.nodes[2].displacement.dy = Q(-8, 9)
    /\ calls[1].result.nodes[1].reaction.dy = R(2)

\* the member with both end nodes fully fixed
IsFixedFixed(m) ==
    /\ IsSingleMemberAlongX(m)
    /\ Len(m.supports) = 2
    /\ {m.supports[1].node, m.supports[2].node} = {m.nodes[1].id, m.nodes[2].id}
    /\ FullyFixed(m.supports[1])
    /\ FullyFixed(m.supports[2])

\* load case lc is one concentrated load in FY on the member
IsTransversePointLoad(m, lc) ==
    /\ lc.nodeLoads = <<>>
    /\ Len(lc.memberLoads) = 1
    /\ lc.memberLoads[1].member = m.members[1].id
    /\ lc.memberLoads[1].type = "point"
    /\ lc.memberLoads[1].direction \in {"FY", "Fy", "fy"}
    /\ lc.memberLoads[1].x # Undefined

\* C8: on a single member with both end nodes fully fixed that carries a
\* concentrated transverse load P at distance a from end i (b = L - a),
\* analyze succeeds with all displacements zero and the end reactions are the
\* closed-form values: shears P*b^2*(3a+b)/L^3 and P*a^2*(a+3b)/L^3, moments
\* of magnitude P*a*b^2/L^2 and P*a^2*b/L^2.
C8_FixedFixed ==
    \A i \in 1..Len(calls) :
        \A c \in CombosNamed(calls[i].name) :
            \A k \in UnitCases(analyzer.model, analyzer.model.loadCombinations[c]) :
                LET m == analyzer.model
                    r == calls[i].result
                    P == RAbs(m.loadCases[k].memberLoads[1].magnitude)
                    L == RSub(m.nodes[2].x, m.nodes[1].x)
                    a == RMul(m.loadCases[k].memberLoads[1].x, L)
                    b == RSub(L, a)
                    L2 == RMul(L, L)
                IN  (IsFixedFixed(m) /\ IsTransversePointLoad(m, m.loadCases[k])) =>
                        /\ r.success
                        /\ \A n \in 1..2 : \A d \in DOFNames :
                              r.nodes[n].displacement[d] = Zero
                        /\ RAbs(r.nodes[1].reaction.dy)
                             = RDiv(RMul(RMul(P, RMul(b, b)), RAdd(RMul(R(3), a), b)), Cube(L))
                        /\ RAbs(r.nodes[2].reaction.dy)
                             = RDiv(RMul(RMul(P, RMul(a, a)), RAdd(a, RMul(R(3), b))), Cube(L))
                        /\ RAbs(r.nodes[1].reaction.rz) = RDiv(RMul(P, RMul(a, RMul(b, b))), L2)
                        /\ RAbs(r.nodes[2].reaction.rz) = RDiv(RMul(P, RMul(RMul(a, a), b)), L2)

\* the sum over the nodes of the entries of DOF vector v in direction d (0..5)
DirectionSum(v, d) ==
    SumTo([n \in 0..Len(analyzer.model.nodes)-1 |-> v[n * 6 + d]],
          0, Len(analyzer.model.nodes) - 1)

\* the reactions reported by result r, as a DOF vector
ReportedReactions(r) ==
    [q \in 0..Len(r.nodes)*6-1 |->
        r.nodes[q \div 6 + 1].reaction[<<"dx", "dy", "dz", "rx", "ry", "rz">>[(q % 6) + 1]]]

\* in direction d the combined loads and the reported reactions of the last call sum to zero
Balanced(d) ==
    RAdd(DirectionSum(last.P, d),
         DirectionSum(ReportedReactions(calls[Len(calls)].result), d)) = Zero

\* C9 as stated: for every successful result the combined load vector entries
\* plus the reported reactions sum to zero over the nodes in each of the six
\* global directions.
C9_SixDirections ==
    last.reached => \A d \in 0..5 : Balanced(d)

\* C9: for every successful result the combined load vector entries plus the
\* reported reactions sum to zero over the nodes in each of the three global
\* translational directions.
C9_Translations ==
    last.reached => \A d \in 0..2 : Balanced(d)

\* a successful analysis with a vertical load whose moment entries do not sum to zero
C9_Witness ==
    /\ last.reached
    /\ calls[Len(calls)].result.success
    /\ DirectionSum(last.P, 1) # Zero
    /\ Balanced(1)
    /\ ~Balanced(5)

IsSymmetric(M, n) ==
    \A i, j \in 0..n-1 : M[i][j] = M[j][i]

\* C10: the global stiffness matrix assembled by analyze is symmetric, and so
\* is the local 12x12 matrix of every element (the elements are those the
\* constructor made, so they are examined on the state it leaves).
C10_Symmetry ==
    /\ last.assembled => IsSymmetric(last.K, analyzer.numDOF)
    /\ (analyzer # NoAnalyzer /\ calls = <<>>) =>
          \A e \in 1..Len(analyzer.elements) :
              IsSymmetric(localStiffnessMatrix(analyzer.elements[e]).data, 12)

\* the matrix of a frame of two members sharing a node, one of them rolled
C10_Witness ==
    /\ last.assembled
    /\ Len(analyzer.elements) = 2
    /\ analyzer.elements[1].rotation = R(90)
    /\ analyzer.elements[1].iNode.x = analyzer.elements[1].jNode.x
    /\ last.K[6][12] # Zero
    /\ last.K[0][10] # Zero
    /\ IsSymmetric(last.K, 18)

\* the six constraint flags of a support, in DOF order
FlagNames == <<"dx", "dy", "dz", "rx", "ry", "rz">>

\* the values listed by a sequence
Listed(seq) == {seq[k] : k \in 1..Len(seq)}

IsAscending(seq) == \A a, b \in 1..Len(seq) : a < b => seq[a] < seq[b]

\* some support of model m names the node at position i (0-based) and has its c-th flag set
HasSupportFlag(m, i, c) ==
    \E s \in 1..Len(m.supports) :
        /\ m.supports[s].node = m.nodes[i + 1].id
        /\ m.supports[s][FlagNames[c + 1]]

\* C11: DOF bookkeeping.  After construction numDOF is six times the number
\* of nodes; freeDOF and fixedDOF are ascending, disjoint and together list
\* every index 0..numDOF-1 once; index 6i+c is in fixedDOF exactly when the
\* node at position i has a support whose c-th flag is true, so that a node
\* without a support has its six DOFs in freeDOF.
C11_DOFBookkeeping ==
    analyzer # NoAnalyzer =>
        LET m == analyzer.model
            n == Len(m.nodes)
        IN  /\ analyzer.numDOF = 6 * n
            /\ IsAscending(analyzer.freeDOF)
            /\ IsAscending(analyzer.fixedDOF)
            /\ Listed(analyzer.freeDOF) \cap Listed(analyzer.fixedDOF) = {}
            /\ Listed(analyzer.freeDOF) \cup Listed(analyzer.fixedDOF) = 0..analyzer.numDOF-1
            /\ \A i \in 0..n-1 : \A c \in 0..5 :
                  (6 * i + c \in Listed(analyzer.fixedDOF)) <=> HasSupportFlag(m, i, c)
            /\ \A i \in 0..n-1 :
                  (\A s \in 1..Len(m.supports) : m.supports[s].node # m.nodes[i + 1].id)
                      => \A c \in 0..5 : 6 * i + c \in Listed(analyzer.freeDOF)

\* three nodes: the first fully fixed, the second without a support, the
\* third held in dy only
C11_Witness ==
    /\ analyzer # NoAnalyzer
    /\ calls = <<>>
    /\ analyzer.numDOF = 18
    /\ analyzer.fixedDOF = <<0, 1, 2, 3, 4, 5, 13>>
    /\ analyzer.freeDOF = <<6, 7, 8, 9, 10, 11, 12, 14, 15, 16, 17>>

\* the displacements reported by result r, as a DOF vector
ReportedDisplacements(r) ==
    [q \in 0..Len(r.nodes)*6-1 |-> r.nodes[q \div 6 + 1].displacement[FlagNames[(q % 6) + 1]]]

\* row d of K times the DOF vector v
RowDot(K, d, v, n) == SumTo([j \in 0..n-1 |-> RMul(K[d][j], v[j])], 0, n - 1)

\* C12: result completeness.  Every successful result has one node result
\* per model node, in model order, each with six displacement and six
\* reaction values; the displacement of every fixed DOF is 0, that of the
\* k-th free DOF is the k-th solved value, the solved values satisfy
\* K11 * D1 = P1, and the reaction of every DOF is (K * D - P) at that DOF.
C12_ResultComplete ==
    /\ \A i \in 1..Len(calls) :
          calls[i].result.success =>
              /\ Len(calls[i].result.nodes) = Len(analyzer.model.nodes)
              /\ \A k \in 1..Len(analyzer.model.nodes) :
                    /\ calls[i].result.nodes[k].nodeId = analyzer.model.nodes[k].id
                    /\ DOMAIN calls[i].result.nodes[k].displacement = DOFNames
                    /\ DOMAIN calls[i].result.nodes[k].reaction = DOFNames
    /\ last.reached =>
          LET r == calls[Len(calls)].result
              n == analyzer.numDOF
              free == analyzer.freeDOF
              D == ReportedDisplacements(r)
          IN  /\ r.success
              /\ \A d \in Listed(analyzer.fixedDOF) : D[d] = Zero
              /\ \A k \in 1..Len(free) :
                    /\ D[free[k]] = last.D1[k - 1]
                    /\ SumTo([j \in 1..Len(free) |->
                                RMul(last.K[free[k]][free[j]], last.D1[j - 1])],
                             1, Len(free)) = last.P[free[k]]
              /\ \A d \in 0..n-1 :
                    ReportedReactions(r)[d] = RSub(RowDot(last.K, d, D, n), last.P[d])

\* a successful analysis of the three-node frame whose last node is held in
\* dy only: free DOFs before and after a fixed one carry displacements
C12_Witness ==
    /\ last.reached
    /\ Len(calls[Len(calls)].result.nodes) = 3
    /\ analyzer.fixedDOF = <<0, 1, 2, 3, 4, 5, 13>>
    /\ calls[Len(calls)].result.nodes[3].displacement.dx # Zero
    /\ calls[Len(calls)].result.nodes[3].displacement.dy = Zero
    /\ calls[Len(calls)].result.nodes[3].displacement.rz # Zero
    /\ calls[Len(calls)].result.nodes[3].reaction.dy # Zero
    /\ calls[Len(calls)].result.nodes[1].reaction.rz # Zero

\* member k of model m names two nodes, a material and a section of the model
Resolves(m, k) ==
    /\ m.members[k].iNode \in IdsOf(m.nodes)
    /\ m.members[k].jNode \in IdsOf(m.nodes)
    /\ m.members[k].material \in IdsOf(m.materials)
    /\ m.members[k].section \in IdsOf(m.sections)

\* the ids of the members of model m that resolve, in member order
RECURSIVE ResolvedIds(_, _)
ResolvedIds(m, k) ==
    IF k = 0 THEN <<>>
    ELSE ResolvedIds(m, k - 1) \o (IF Resolves(m, k) THEN <<m.members[k].id>> ELSE <<>>)

\* parseStanalFile accepts the document that holds model m
Accepted(m) == parseStanalFile(JsonOf(m)).success

\* C15: fully-resolved model.  Every member of a model that parseStanalFile
\* accepts resolves; the Analyzer holds one element per resolving member, in
\* member order (one per member when all resolve), and every successful
\* result one member result per element; a member that does not resolve is
\* dropped without an exception and without a failed result: the constructor
\* throws only for a resolving member of zero length.
C15_FullyResolved ==
    input.loaded =>
        LET m == input.value
            ids == ResolvedIds(m, Len(m.members))
        IN  /\ Accepted(m) => ids = [k \in 1..Len(m.members) |-> m.members[k].id]
            /\ analyzer # NoAnalyzer =>
                  /\ Len(analyzer.elements) = Len(ids)
                  /\ \A e \in 1..Len(ids) : analyzer.elements[e].id = ids[e]
            /\ analyzer = NoAnalyzer =>
                  \E k \in 1..Len(m.members) :
                      /\ Resolves(m, k)
                      /\ escaped = "Member " \o m.members[k].id \o " has zero length"
            /\ \A i \in 1..Len(calls) :
                  calls[i].result.success =>
                      /\ Len(calls[i].result.members) = Len(ids)
                      /\ \A e \in 1..Len(ids) : calls[i].result.members[e].memberId = ids[e]

\* a model of three members, the first with a missing node and the last with
\* a missing section, analysed with success: one element, one member result
C15_Witness ==
    /\ input.loaded
    /\ Len(input.value.members) = 3
    /\ ~Resolves(input.value, 1)
    /\ ~Resolves(input.value, 3)
    /\ Len(analyzer.elements) = 1
    /\ escaped = ""
    /\ Len(calls) = 1
    /\ calls[1].result.success
    /\ Len(calls[1].result.members) = 1
    /\ calls[1].result.members[1].memberId = "M1"

\* the unit vector from end i to end j of element el, in global axes
DirectionOf(el) ==
    V3(RDiv(RSub(el.jNode.x, el.iNode.x), el.length),
       RDiv(RSub(el.jNode.y, el.iNode.y), el.length),
       RDiv(RSub(el.jNode.z, el.iNode.z), el.length))

\* the 3x3 block at (0, 0) of the 12x12 matrix M, applied to the vector v
Block3Times(M, v) ==
    [i \in 0..2 |-> SumTo([j \in 0..2 |-> RMul(M[i][j], v[j])], 0, 2)]

\* C16: T maps global components to local components.  For every element
\* without roll the 3x3 block of its transformation matrix takes the member's
\* unit direction vector to (1, 0, 0), and the stiffness of the global matrix
\* Tt * K_local * T along that direction, d . K d, is E*A/L.
C16_GlobalToLocal ==
    (analyzer # NoAnalyzer /\ calls = <<>>) =>
        \A e \in 1..Len(analyzer.elements) :
            LET el == analyzer.elements[e]
                d == DirectionOf(el)
                T == transformationMatrix(el).value.data
                K == globalStiffnessMatrix(el).value.data
                Kd == Block3Times(K, d)
            IN  el.rotation = Zero =>
                    /\ Block3Times(T, d) = V3(One, Zero, Zero)
                    /\ SumTo([i \in 0..2 |-> RMul(d[i], Kd[i])], 0, 2)
                         = RDiv(RMul(el.material.E, el.section.A), el.length)

\* the DOF offset of a direction tag in any letter case; -1 for another tag
TagOffset(tag) ==
    CASE tag \in {"FX", "Fx", "fx"} -> 0
      [] tag \in {"FY", "Fy", "fy"} -> 1
      [] tag \in {"FZ", "Fz", "fz"} -> 2
      [] tag \in {"MX", "Mx", "mx"} -> 3
      [] tag \in {"MY", "My", "my"} -> 4
      [] tag \in {"MZ", "Mz", "mz"} -> 5
      [] OTHER -> -1

\* the sum of the magnitudes of the nodal loads of load case lc on DOF d
NodalAt(an, lc, d) ==
    SumTo([k \in 1..Len(lc.nodeLoads) |->
                IF /\ nodeIndexOf(an.model, lc.nodeLoads[k].node) = d \div 6
                   /\ TagOffset(lc.nodeLoads[k].direction) = d % 6
                THEN lc.nodeLoads[k].magnitude
                ELSE Zero],
          1, Len(lc.nodeLoads))

\* the entry of the global fixed-end reactions fer of element el at DOF d
ElementFERAt(an, el, fer, d) ==
    RAdd(IF nodeIndexOf(an.model, el.iNode.id) = d \div 6 THEN fer[d % 6] ELSE Zero,
         IF nodeIndexOf(an.model, el.jNode.id) = d \div 6 THEN fer[(d % 6) + 6] ELSE Zero)

\* nodal loads minus fixed-end reactions of load case lc, for every DOF
ExpectedCaseVector(an, lc) ==
    With(Force([e \in 1..Len(an.elements) |->
                    fixedEndReactions(an.elements[e], lc.memberLoads).value]),
         LAMBDA fers :
            Force([d \in 0..an.numDOF-1 |->
                RSub(NodalAt(an, lc, d),
                     SumTo([e \in 1..Len(an.elements) |->
                                ElementFERAt(an, an.elements[e], fers[e], d)],
                           1, Len(an.elements)))]))

\* the load cases of the model that entry i of the combination names
CasesNamed(an, combo, i) ==
    {k \in 1..Len(an.model.loadCases) :
        an.model.loadCases[k].name = combo.factors[i].case}

\* the factor-weighted sum of the load case vectors of a combination
ExpectedCombinedVector(an, combo) ==
    With(Force([i \in 1..Len(combo.factors) |->
                    IF CasesNamed(an, combo, i) = {}
                    THEN [d \in 0..an.numDOF-1 |-> Zero]
                    ELSE ExpectedCaseVector(an,
                            an.model.loadCases[
                                CHOOSE k \in CasesNamed(an, combo, i) :
                                    \A j \in CasesNamed(an, combo, i) : k <= j])]),
         LAMBDA vectors :
            [d \in 0..an.numDOF-1 |->
                SumTo([i \in 1..Len(combo.factors) |->
                            RMul(combo.factors[i].factor, vectors[i][d])],
                      1, Len(combo.factors))])

\* C18: the combined load vector.  The load vector that analyze solves for
\* is, at every DOF, the sum over the load cases named in the combination of
\* factor * (the nodal loads on that DOF minus the global fixed-end reaction
\* entries of every element at that DOF); a nodal load tagged FX..MZ in any
\* letter case on the node at position i lands on DOF 6i+0..6i+5.
C18_CombinedLoadVector ==
    last.reached =>
        \A c \in 1..Len(analyzer.model.loadCombinations) :
            (/\ analyzer.model.loadCombinations[c].name = calls[Len(calls)].name
             /\ \A b \in 1..c-1 :
                    analyzer.model.loadCombinations[b].name # calls[Len(calls)].name)
                => last.P = ExpectedCombinedVector(analyzer,
                                analyzer.model.loadCombinations[c])

\* the frame under the combination of both load cases: the node shared by
\* the two members receives the nodal loads and both members' fixed-end
\* reactions, the last node the loads of both cases
C18_Witness ==
    /\ last.reached
    /\ calls[Len(calls)].name = "A+2B"
    /\ Len(analyzer.elements) = 2
    /\ Len(analyzer.model.loadCases[1].memberLoads) = 2
    /\ last.P[8] = R(3)
    /\ last.P[7] # R(-1)
    /\ last.P[12] # Zero
    /\ last.P[13] # Zero

\* member load `load` is of one of the types and has a non-zero amplitude
IsLoadOf(load, types) ==
    /\ load.type \in types
    /\ load.direction # UndefinedStr
    /\ TagOffset(load.direction) >= 0
    /\ IF load.type = "distributed"
       THEN OrElse(load.w1, Zero) # Zero
       ELSE OrElse(load.magnitude, Zero) # Zero

\* for every element and every member load of one of the types on it,
\* fixedEndReactions of that load alone is a non-zero vector
LoadsContribute(types) ==
    analyzer # NoAnalyzer =>
        \A e \in 1..Len(analyzer.elements) :
            \A c \in 1..Len(analyzer.model.loadCases) :
                \A k \in 1..Len(analyzer.model.loadCases[c].memberLoads) :
                    (/\ analyzer.model.loadCases[c].memberLoads[k].member
                            = analyzer.elements[e].id
                     /\ IsLoadOf(analyzer.model.loadCases[c].memberLoads[k], types))
                        => fixedEndReactions(analyzer.elements[e],
                                <<analyzer.model.loadCases[c].memberLoads[k]>>).value
                             # [i \in 0..11 |-> Zero]

\* C19: no declared member load is ignored.  For every element and every
\* member load of type distributed, point or moment on it with a non-zero
\* amplitude, fixedEndReactions of that load alone is a non-zero vector; in
\* particular a moment load M # 0 in direction MY or MZ contributes.
C19_NoLoadIgnored == LoadsContribute({"distributed", "point", "moment"})

\* the distributed and the point loads are not ignored
ForceLoadsContribute == LoadsContribute({"distributed", "point"})

\* an Analyzer whose model carries a moment load on one of its elements
C19_Witness ==
    /\ analyzer # NoAnalyzer
    /\ Len(analyzer.elements) = 1
    /\ \E k \in 1..Len(analyzer.model.loadCases[1].memberLoads) :
            /\ analyzer.model.loadCases[1].memberLoads[k].type = "moment"
            /\ analyzer.model.loadCases[1].memberLoads[k].member = analyzer.elements[1].id
            /\ analyzer.model.loadCases[1].memberLoads[k].magnitude # Zero
    /\ last.reached
    /\ calls[Len(calls)].name = "1.0A"
    /\ \A d \in 0..analyzer.numDOF-1 : last.P[d] = Zero

\* the fixed-end reactions, in member axes, of a member of length L under a
\* transverse load P in local y at distance a from end i
ExpectedPointFY(P, a, L) ==
    [i \in 0..11 |->
        CASE i = 1  -> RDiv(RMul(RMul(P, RMul(RSub(L, a), RSub(L, a))),
                                 RAdd(RMul(R(3), a), RSub(L, a))),
                            RMul(RMul(L, L), L))
          [] i = 5  -> RDiv(RMul(RMul(P, a), RMul(RSub(L, a), RSub(L, a))), RMul(L, L))
          [] i = 7  -> RDiv(RMul(RMul(P, RMul(a, a)),
                                 RAdd(a, RMul(R(3), RSub(L, a)))),
                            RMul(RMul(L, L), L))
          [] i = 11 -> RNeg(RDiv(RMul(RMul(P, RMul(a, a)), RSub(L, a)), RMul(L, L)))
          [] OTHER  -> Zero]

\* the normalized positions of the point loads of the models
Positions == {Zero, Q(1, 4), One}

\* every point load in FY with normalized position x among xs acts at x * L:
\* its fixed-end reactions in member axes are those of a load at a = x * L
PointLoadsAt(xs) ==
    analyzer # NoAnalyzer =>
        \A e \in 1..Len(analyzer.elements) :
            \A c \in 1..Len(analyzer.model.loadCases) :
                \A k \in 1..Len(analyzer.model.loadCases[c].memberLoads) :
                    (/\ analyzer.model.loadCases[c].memberLoads[k].member
                            = analyzer.elements[e].id
                     /\ analyzer.model.loadCases[c].memberLoads[k].type = "point"
                     /\ TagOffset(analyzer.model.loadCases[c].memberLoads[k].direction) = 1
                     /\ analyzer.model.loadCases[c].memberLoads[k].x \in xs)
                        => localFER(analyzer.elements[e],
                                <<analyzer.model.loadCases[c].memberLoads[k]>>,
                                1, [i \in 0..11 |-> Zero]).value
                             = ExpectedPointFY(
                                    analyzer.model.loadCases[c].memberLoads[k].magnitude,
                                    RMul(analyzer.model.loadCases[c].memberLoads[k].x,
                                         analyzer.elements[e].length),
                                    analyzer.elements[e].length)

\* the end of a distributed load when given, the end of the member otherwise
EndOr(v, end) == IF v = Undefined THEN end ELSE v

\* every uniform load w in FY from x1 to x2 puts w * (x2 - x1) * L on the
\* two ends together
DistributedLoadsSpan ==
    analyzer # NoAnalyzer =>
        \A e \in 1..Len(analyzer.elements) :
            \A c \in 1..Len(analyzer.model.loadCases) :
                \A k \in 1..Len(analyzer.model.loadCases[c].memberLoads) :
                    (/\ analyzer.model.loadCases[c].memberLoads[k].member
                            = analyzer.elements[e].id
                     /\ analyzer.model.loadCases[c].memberLoads[k].type = "distributed"
                     /\ TagOffset(analyzer.model.loadCases[c].memberLoads[k].direction) = 1
                     /\ analyzer.model.loadCases[c].memberLoads[k].w2 = Undefined)
                        => \E fer \in {localFER(analyzer.elements[e],
                                        <<analyzer.model.loadCases[c].memberLoads[k]>>,
                                        1, [i \in 0..11 |-> Zero]).value} :
                              RAdd(fer[1], fer[7])
                                = RMul(RMul(analyzer.model.loadCases[c].memberLoads[k].w1,
                                            RSub(EndOr(analyzer.model.loadCases[c]
                                                        .memberLoads[k].x2, One),
                                                 EndOr(analyzer.model.loadCases[c]
                                                        .memberLoads[k].x1, Zero))),
                                       analyzer.elements[e].length)

\* C20: normalized load positions.  A point member load with normalized
\* position x acts at distance x * L from end i for every x in [0,1]: at
\* x = 0 the whole load goes to end i without fixed-end moment, at x = 1 to
\* end j; a distributed load extends from x1 * L to x2 * L.
C20_PositionsScaled ==
    /\ PointLoadsAt(Positions)
    /\ DistributedLoadsSpan

\* the point loads away from end i act at x * L
PointLoadsBeyondI == PointLoadsAt(Positions \ {Zero})

\* analyze of the unit beam with a unit point load at x = 0: half of the load
\* and a fixed-end moment of 1/8 at end i
C20_Witness ==
    /\ last.reached
    /\ calls[Len(calls)].name = "1.0A"
    /\ Len(analyzer.model.loadCases[1].memberLoads) = 1
    /\ analyzer.model.loadCases[1].memberLoads[1].type = "point"
    /\ analyzer.model.loadCases[1].memberLoads[1].x = Zero
    /\ last.P[1] = Q(-1, 2)
    /\ last.P[5] = Q(-1, 8)
    /\ last.P[7] = Q(-1, 2)

\* the sum over the entries of the combination whose load case exists of
\* factor * fixedEndReactions of the loads of that case
WeightedFER(an, el, combo) ==
    With(Force([i \in 1..Len(combo.factors) |->
                    IF CasesNamed(an, combo, i) = {}
                    THEN [q \in 0..11 |-> Zero]
                    ELSE fixedEndReactions(el,
                            an.model.loadCases[
                                CHOOSE k \in CasesNamed(an, combo, i) :
                                    \A j \in CasesNamed(an, combo, i) : k <= j
                            ].memberLoads).value]),
         LAMBDA fers :
            [q \in 0..11 |->
                SumTo([i \in 1..Len(combo.factors) |->
                            RMul(combo.factors[i].factor, fers[i][q])],
                      1, Len(combo.factors))])

\* fixedEndReactions of the loads recombined for element el equals the
\* weighted sum of the fixed-end reactions of the cases
RecombinedAgree(an, el, combo) ==
    fixedEndReactions(el, combinedLoads(an, combo, el.id, 1)).value
        = WeightedFER(an, el, combo)

\* every distributed load of every load case of the model gives w2
AllGiveW2(model) ==
    \A c \in 1..Len(model.loadCases) :
        \A k \in 1..Len(model.loadCases[c].memberLoads) :
            model.loadCases[c].memberLoads[k].type = "distributed"
                => model.loadCases[c].memberLoads[k].w2 # Undefined

\* C21: recombined member loads.  For every element and every combination,
\* fixedEndReactions of the load list that extractMemberResults hands to
\* computeMemberForces equals the sum over the referenced load cases of
\* factor * fixedEndReactions of the loads of that case, also for
\* distributed loads that give w1 only and for loads without magnitude.
C21_RecombinedLoads ==
    analyzer # NoAnalyzer =>
        \A e \in 1..Len(analyzer.elements) :
            \A c \in 1..Len(analyzer.model.loadCombinations) :
                RecombinedAgree(analyzer, analyzer.elements[e],
                                analyzer.model.loadCombinations[c])

\* the recombined loads are equivalent when every distributed load gives w2
RecombinedWhenW2Given ==
    (analyzer # NoAnalyzer /\ AllGiveW2(analyzer.model)) =>
        \A e \in 1..Len(analyzer.elements) :
            \A c \in 1..Len(analyzer.model.loadCombinations) :
                RecombinedAgree(analyzer, analyzer.elements[e],
                                analyzer.model.loadCombinations[c])

\* the unit beam under a uniform load of intensity 1 that gives w1 only: the
\* recombined load for 1.0A has w2 = 0 and half the fixed-end shear
C21_Witness ==
    /\ analyzer # NoAnalyzer
    /\ Len(analyzer.elements) = 1
    /\ Len(analyzer.model.loadCases[1].memberLoads) = 1
    /\ analyzer.model.loadCases[1].memberLoads[1].type = "distributed"
    /\ analyzer.model.loadCases[1].memberLoads[1].w2 = Undefined
    /\ combinedLoads(analyzer, analyzer.model.loadCombinations[1],
                     analyzer.elements[1].id, 1)[1].w2 = Zero
    /\ fixedEndReactions(analyzer.elements[1],
                         analyzer.model.loadCases[1].memberLoads).value[1] = Q(1, 2)
    /\ fixedEndReactions(analyzer.elements[1],
            combinedLoads(analyzer, analyzer.model.loadCombinations[1],
                          analyzer.elements[1].id, 1)).value[1] = Q(1, 4)

\* extremum mf of component key over the samples: the first sample of the
\* largest absolute value, or value 0 at location 0 when all samples are 0
IsFirstAbsoluteMax(mf, forces, key) ==
    IF \A q \in 1..Len(forces) : forces[q][key] = Zero
    THEN mf = [value |-> Zero, location |-> Zero]
    ELSE \E p \in 1..Len(forces) :
            /\ mf = [value |-> forces[p][key], location |-> forces[p].x]
            /\ \A q \in 1..Len(forces) :
                    ~RLess(RAbs(forces[p][key]), RAbs(forces[q][key]))
            /\ \A q \in 1..p-1 : RLess(RAbs(forces[q][key]), RAbs(forces[p][key]))

\* summary entry s bounds field `field` of every node in the three
\* translational directions and, unless it is 0, names a node and a
\* direction where the value occurs
IsNodeExtremum(s, nodes, field) ==
    /\ \A k \in 1..Len(nodes) : \A dir \in {"dx", "dy", "dz"} :
            ~RLess(RAbs(s.value), RAbs(nodes[k][field][dir]))
    /\ IF s.value = Zero
       THEN s = [nodeId |-> "", value |-> Zero, direction |-> ""]
       ELSE \E k \in 1..Len(nodes) :
                /\ s.nodeId = nodes[k].nodeId
                /\ s.direction \in {"dx", "dy", "dz"}
                /\ s.value = nodes[k][field][s.direction]

\* summary entry s bounds the extremum of component key of every member and,
\* unless it is 0, names a member whose extremum it is
IsMemberExtremum(s, members, key) ==
    /\ \A m \in 1..Len(members) :
            ~RLess(RAbs(s.value), RAbs(members[m].maxForces[key].value))
    /\ IF s.value = Zero
       THEN s = [memberId |-> "", value |-> Zero, location |-> Zero]
       ELSE \E m \in 1..Len(members) :
                /\ s.memberId = members[m].memberId
                /\ s.value = members[m].maxForces[key].value
                /\ s.location = members[m].maxForces[key].location

\* C23: extrema by absolute value.  In every successful result maxForces
\* gives, for axial, shearY, shearZ, momentY and momentZ of every member,
\* the signed value and the position of the first sample whose absolute
\* value is largest (0 at 0 when all samples are 0); the summary's
\* maxDisplacement, maxReaction, maxMoment and maxShear bound the node
\* translations, the node reaction forces, the members' momentZ extrema and
\* the members' shearY extrema, and name the node or member where they occur.
C23_Extrema ==
    (calls # <<>> /\ calls[Len(calls)].result.success) =>
        \E r \in {calls[Len(calls)].result} :
            /\ \A m \in 1..Len(r.members) :
                    /\ DOMAIN r.members[m].maxForces = ExtremaNames
                    /\ \A key \in ExtremaNames :
                            IsFirstAbsoluteMax(r.members[m].maxForces[key],
                                               r.members[m].forces, key)
            /\ IsNodeExtremum(r.summary.maxDisplacement, r.nodes, "displacement")
            /\ IsNodeExtremum(r.summary.maxReaction, r.nodes, "reaction")
            /\ IsMemberExtremum(r.summary.maxMoment, r.members, "momentZ")
            /\ IsMemberExtremum(r.summary.maxShear, r.members, "shearY")

\* a result of the frame with a negative extremum, an extremum of a member
\* away from its end i, the largest displacement downwards and the largest
\* shear in the second member
C23_Witness ==
    /\ calls # <<>>
    /\ calls[Len(calls)].result.success
    /\ Len(calls[Len(calls)].result.members) = 2
    /\ \E m \in 1..2 : \E key \in ExtremaNames :
            RLess(calls[Len(calls)].result.members[m].maxForces[key].value, Zero)
    /\ \E m \in 1..2 : \E key \in ExtremaNames :
            calls[Len(calls)].result.members[m].maxForces[key].location # Zero
    /\ RLess(calls[Len(calls)].result.summary.maxDisplacement.value, Zero)
    /\ calls[Len(calls)].result.summary.maxReaction.value # Zero
    /\ calls[Len(calls)].result.summary.maxShear.memberId = "M2"

\* load case lc is one point load, or one uniform load over the whole
\* member, in FX, FY or FZ on the member of model m, and nothing else
IsMemberForceLoad(m, lc) ==
    /\ lc.nodeLoads = <<>>
    /\ Len(lc.memberLoads) = 1
    /\ lc.memberLoads[1].member = m.members[1].id
    /\ lc.memberLoads[1].direction # UndefinedStr
    /\ TagOffset(lc.memberLoads[1].direction) \in 0..2
    /\ \/ lc.memberLoads[1].type = "point"
       \/ /\ lc.memberLoads[1].type = "distributed"
          /\ lc.memberLoads[1].w2 \in {Undefined, lc.memberLoads[1].w1}
          /\ lc.memberLoads[1].x1 \in {Undefined, Zero}
          /\ lc.memberLoads[1].x2 \in {Undefined, One}

\* the total force of the load on a member of length L
TotalLoad(load, L) ==
    IF load.type = "point" THEN load.magnitude ELSE RMul(load.w1, L)

\* on the member along global X, the load vector of a combination of one
\* case that holds one member force load of total W has translational
\* entries at the two end nodes that sum to sign * factor * W in the
\* direction of the load; a point load at normalized position 1 gives the
\* vector of the nodal load sign * factor * W at end j
MemberLoadEntersAs(sign) ==
    (last.reached /\ IsSingleMemberAlongX(analyzer.model)) =>
        \A c \in CombosNamed(calls[Len(calls)].name) :
        \A k \in 1..Len(analyzer.model.loadCases) :
            (/\ Len(analyzer.model.loadCombinations[c].factors) = 1
             /\ analyzer.model.loadCombinations[c].factors[1].case
                    = analyzer.model.loadCases[k].name
             /\ IsMemberForceLoad(analyzer.model, analyzer.model.loadCases[k]))
                =>
            \E load \in {analyzer.model.loadCases[k].memberLoads[1]} :
            \E W \in {RMul(RMul(sign, analyzer.model.loadCombinations[c].factors[1].factor),
                           TotalLoad(load, analyzer.elements[1].length))} :
                /\ RAdd(last.P[TagOffset(load.direction)],
                        last.P[6 + TagOffset(load.direction)]) = W
                /\ (load.type = "point" /\ load.x = One)
                        => last.P = [d \in 0..11 |->
                                        IF d = 6 + TagOffset(load.direction)
                                        THEN W ELSE Zero]

\* C25: member loads are statically equivalent to the load.  For a member
\* whose local axes are the global axes, a point load of magnitude W or a
\* uniform load over the whole member of total W = w * L in FX, FY or FZ adds
\* to the combined load vector translational entries at the two end nodes
\* that sum to +factor * W in that direction; a point load at normalized
\* position 1 acts as the nodal load of that magnitude and direction at end j.
C25_StaticEquivalence == MemberLoadEntersAs(One)

\* the member loads enter the load vector with the opposite sign
MemberLoadsReversed == MemberLoadEntersAs(R(-1))

\* analyze of the unit beam with a point load +1 in FY at end j: the load
\* vector holds -1 at the dy entry of end j
C25_Witness ==
    /\ last.reached
    /\ IsSingleMemberAlongX(analyzer.model)
    /\ calls[Len(calls)].name = "1.0A"
    /\ IsMemberForceLoad(analyzer.model, analyzer.model.loadCases[1])
    /\ analyzer.model.loadCases[1].memberLoads[1].type = "point"
    /\ analyzer.model.loadCases[1].memberLoads[1].x = One
    /\ analyzer.model.loadCases[1].memberLoads[1].magnitude = R(1)
    /\ last.P[7] = R(-1)

-----------------------------------------------------------------------------
(* Properties of Member3DElement and createRotationMatrix *)

\* the call made on the element is a call of op that returned
Returned(op) ==
    /\ memberElement.call.op = op
    /\ ~memberElement.call.out.threw

\* K_local * (T * d) for the element and the end displacements d
EndForces(el, d) ==
    With(Force([j \in 0..11 |-> RowDot(transformationMatrix(el).value.data, j, d, 12)]),
         LAMBDA dLocal :
            Force([i \in 0..11 |-> RowDot(localStiffnessMatrix(el).data, i, dLocal, 12)]))

\* sample p of n + 1 samples between the end forces f on a member of length L
SampleAt(f, L, n, p) ==
    [x |-> RDiv(RMul(R(p - 1), L), R(n)),
     forces |-> [c \in 0..5 |->
                    RAdd(f[c], RMul(RSub(f[c + 6], f[c]), Q(p - 1, n)))]]

IsTrapezoidCall ==
    /\ Returned("fixedEndReactions")
    /\ Len(memberElement.call.loads) = 1
    /\ memberElement.call.loads[1].type = "distributed"
    /\ memberElement.call.loads[1].w2 # Undefined
    /\ memberElement.call.loads[1].w2 # memberElement.call.loads[1].w1

\* the load with both intensities replaced by w
UniformOf(load, w) == [load EXCEPT !.w1 = w, !.w2 = w]

\* the mean of the two intensities of a load
MeanIntensity(load) == RDiv(RAdd(load.w1, load.w2), R(2))

\* C24: the trapezoidal load.  A distributed load with w1 # w2 over
\* [x1, x2] gives the same fixed-end vector as a uniform load min(w1, w2)
\* plus a uniform load |w2 - w1| / 2 over the same span; the vector is that
\* of the uniform load (w1 + w2) / 2, does not change when w1 and w2 are
\* swapped, and its two end shears sum to (w1 + w2) / 2 * (x2 - x1), for
\* either sign of the intensities.
C24_TrapezoidalLoad ==
    IsTrapezoidCall =>
        \E el \in {memberElement.obj.value} :
        \E load \in {memberElement.call.loads[1]} :
        \E fer \in {memberElement.call.out.value} :
            /\ fer = fixedEndReactions(el,
                        <<UniformOf(load, RMin(load.w1, load.w2)),
                          UniformOf(load, RDiv(RAbs(RSub(load.w2, load.w1)), R(2)))>>).value
            /\ fer = fixedEndReactions(el, <<UniformOf(load, MeanIntensity(load))>>).value
            /\ fer = fixedEndReactions(el,
                        <<[load EXCEPT !.w1 = load.w2, !.w2 = load.w1]>>).value
            /\ \E local \in {localFER(el, <<load>>, 1, [i \in 0..11 |-> Zero]).value} :
                   RAdd(local[TagOffset(load.direction)],
                        local[TagOffset(load.direction) + 6])
                     = RMul(RMul(MeanIntensity(load),
                                 RSub(EndOr(load.x2, One), EndOr(load.x1, Zero))),
                            el.length)

\* a load from -1 to 2 over the middle half of the 3-4-5 member
C24_Witness ==
    /\ IsTrapezoidCall
    /\ memberElement.call.loads[1].w1 = R(-1)
    /\ memberElement.call.loads[1].w2 = R(2)
    /\ memberElement.call.loads[1].x1 = Q(1, 4)
    /\ memberElement.call.loads[1].direction = "FY"
    /\ memberElement.obj.value.length = R(5)
    /\ memberElement.obj.value.iNode.z = memberElement.obj.value.jNode.z
    /\ memberElement.call.out.value[0] # Zero
    /\ memberElement.call.out.value[1] # Zero

\* column k of a 3 x 3 matrix
Column3(M, k) == [i \in 0..2 |-> M[i][k]]

Dot3(u, v) == SumTo([i \in 0..2 |-> RMul(u[i], v[i])], 0, 2)

Cross3(u, v) ==
    V3(RSub(RMul(u[1], v[2]), RMul(u[2], v[1])),
       RSub(RMul(u[2], v[0]), RMul(u[0], v[2])),
       RSub(RMul(u[0], v[1]), RMul(u[1], v[0])))

\* the vector from iNode to jNode
Along(iNode, jNode) ==
    V3(RSub(jNode.x, iNode.x), RSub(jNode.y, iNode.y), RSub(jNode.z, iNode.z))

\* the columns of M are unit vectors, mutually perpendicular, the third the
\* cross product of the first two
IsRightHandedOrthonormal(M) ==
    /\ \A a, b \in 0..2 :
            Dot3(Column3(M, a), Column3(M, b)) = IF a = b THEN One ELSE Zero
    /\ Column3(M, 2) = Cross3(Column3(M, 0), Column3(M, 1))

\* C28: the rotation matrix.  For end points that do not coincide and every
\* roll angle createRotationMatrix returns a matrix whose columns, the local
\* x, y and z axes in global components, are orthonormal and right-handed,
\* with x along the member; for a vertical member without roll y is
\* (-1,0,0) when it points to +Y and (1,0,0) when it points to -Y; for
\* coinciding end points the zero-length error is thrown.
C28_RotationMatrix ==
    memberElement.call.op = "createRotationMatrix" =>
        \E d \in {Along(memberElement.call.iNode, memberElement.call.jNode)} :
            IF d = V3(Zero, Zero, Zero)
            THEN memberElement.call.out = Throw("Member has zero length")
            ELSE /\ ~memberElement.call.out.threw
                 /\ memberElement.call.out.value.rows = 3
                 /\ memberElement.call.out.value.cols = 3
                 /\ IsRightHandedOrthonormal(memberElement.call.out.value.data)
                 /\ \E x \in {Column3(memberElement.call.out.value.data, 0)} :
                        /\ Cross3(x, d) = V3(Zero, Zero, Zero)
                        /\ RLess(Zero, Dot3(x, d))
                 /\ (d[0] = Zero /\ d[2] = Zero /\ memberElement.call.rotation = Zero)
                        => Column3(memberElement.call.out.value.data, 1)
                             = IF RLess(Zero, d[1]) THEN V3(R(-1), Zero, Zero)
                               ELSE V3(One, Zero, Zero)

\* a member in space, away from the origin, rolled by 90 degrees
C28_Witness ==
    /\ Returned("createRotationMatrix")
    /\ memberElement.call.iNode.x = One
    /\ Along(memberElement.call.iNode, memberElement.call.jNode) = V3(R(3), R(12), R(4))
    /\ memberElement.call.rotation = R(90)
    /\ Column3(memberElement.call.out.value.data, 0) = V3(Q(3, 13), Q(12, 13), Q(4, 13))
    /\ Column3(memberElement.call.out.value.data, 1)[1] = Zero

-----------------------------------------------------------------------------
(* Properties of Matrix.solve *)

\* |a| < 1e-12
IsTiny(a) == LessThanTenToMinus(RAbs(a), PivotTolExp)

\* the determinant of a square matrix of size 1 to 3
Det(M) ==
    LET a == M.data
        Minor(i, j, k, l) == RSub(RMul(a[i][k], a[j][l]), RMul(a[i][l], a[j][k]))
    IN  CASE M.rows = 1 -> a[0][0]
          [] M.rows = 2 -> Minor(0, 1, 0, 1)
          [] M.rows = 3 -> RAdd(RSub(RMul(a[0][0], Minor(1, 2, 1, 2)),
                                     RMul(a[0][1], Minor(1, 2, 0, 2))),
                                RMul(a[0][2], Minor(1, 2, 0, 1)))

\* the call has a square matrix and a right-hand side of its size
WellShaped(s) == s.M.rows = s.M.cols /\ s.M.rows = s.len

\* what C17 says of a call of solve in state s of its execution
SolveContract(s) ==
    \* the row chosen at step k has the largest |entry| of column k in rows k..n-1
    /\ s.pc = "swap" =>
          /\ s.maxRow \in s.k..s.n-1
          /\ \A i \in s.k..s.n-1 :
                ~RLess(RAbs(s.A[s.maxRow][s.k]), RAbs(s.A[i][s.k]))
    \* and after the swap it is the pivot row
    /\ s.pc = "eliminate" =>
          \A i \in s.k..s.n-1 : ~RLess(RAbs(s.A[s.k][s.k]), RAbs(s.A[i][s.k]))
    \* a well-shaped call throws only the singular error, at a pivot below 1e-12
    /\ (s.pc = "threw" /\ WellShaped(s)) =>
          /\ s.error = SingularError
          /\ IsTiny(s.A[s.k][s.k])
          /\ Det(s.M) = Zero
    \* and otherwise returns x with A * x = b, no pivot being below 1e-12
    /\ s.pc = "done" =>
          /\ WellShaped(s)
          /\ \A i \in 0..s.n-1 : ~IsTiny(s.A[i][i])
          /\ \A i \in 0..s.n-1 : RowDot(s.M.data, i, s.x, s.n) = s.b[i]
    \* a call that is not well-shaped throws
    /\ (s.pc # "enter" /\ s.M.rows # s.M.cols) =>
          s.pc = "threw" /\ s.error = "Matrix must be square for solving"
    /\ (s.pc # "enter" /\ s.M.rows = s.M.cols /\ s.M.rows # s.len) =>
          s.pc = "threw" /\ s.error = "Vector b length must match matrix rows"

\* C17: Matrix.solve(b) on a square n x n matrix with b of length n chooses
\* at every elimination step the row of largest absolute value in the pivot
\* column among rows k..n-1, throws the singular error exactly when a pivot
\* (the last diagonal entry included) is below 1e-12 in magnitude, and
\* otherwise returns x with A * x = b; a matrix that is not square and a b of
\* the wrong length throw.
C17_SolveContract ==
    (solver # NoSolve /\ solver.operation = "solve") => SolveContract(solver)

\* the same for the calls with at least one equation
SolveContractFromOne ==
    (/\ solver # NoSolve
     /\ solver.operation = "solve"
     /\ ~(WellShaped(solver) /\ solver.M.rows = 0))
        => SolveContract(solver)

\* the swap of iteration k exchanges rows k and maxRow of A and the same two
\* entries of the right-hand side, and nothing else
SolveSwapsRightHandSide ==
    [][(solver.pc = "swap" /\ solver'.pc = "eliminate") =>
            \A i \in 0..solver.n-1 :
                LET from == IF i = solver.k THEN solver.maxRow
                            ELSE IF i = solver.maxRow THEN solver.k ELSE i
                IN  /\ solver'.A[i] = solver.A[from]
                    /\ solver'.x[i] = solver.x[from]
      ]_vars

\* a finished call ended as the operator solve says
SolveStepsAgree ==
    solver.pc \in {"done", "threw"} =>
        solve(solver.M, solver.b, solver.len)
            = IF solver.pc = "threw" THEN Throw(solver.error) ELSE Ok(solver.x)

\* a system of three equations solved after a row swap in each of the two steps
C17_Witness ==
    /\ solver # NoSolve
    /\ solver.pc = "done"
    /\ solver.n = 3
    /\ solver.pivot[0] # 0
    /\ solver.pivot[1] = 0
    /\ \A i \in 0..2 : RowDot(solver.M.data, i, solver.x, 3) = solver.b[i]

\* C27: solve and the other value-returning operations leave the receiver
\* and the arguments unchanged.  No step of A.solve(b), up to its return or
\* its exception, and no call of plus, minus, scale, multiply,
\* multiplyVector, transpose, subMatrix or clone changes an entry of the
\* receiver or of the vector passed to it.
C27_ReceiverUnchanged ==
    [][solver'.M = solver.M /\ solver'.b = solver.b]_vars

\* solve has returned after swapping rows and eliminating in its own copies:
\* the copy of the matrix and the solution differ from the receiver and from b
C27_Witness ==
    /\ solver.pc = "done"
    /\ solver.n >= 2
    /\ solver.pivot # [i \in 0..solver.n-1 |-> i]
    /\ solver.A # solver.M.data
    /\ solver.x # solver.b
-----------------------------------------------------------------------------
(* Properties of the extension *)

\* the combinations of the model under analysis
Combinations == currentModel.value.loadCombinations

\* the entries of Map `map` stored under combination name `name`
StoredFor(map, name) == {k \in 1..Len(map) : map[k].key = name}

\* Map `map` holds the results of the first n combinations and nothing else
StoredUpTo(map, n) ==
    /\ Len(map) = n
    /\ \A c \in 1..n :
          /\ map[c].key = Combinations[c].name
          /\ map[c].value.loadCase = Combinations[c].name

\* C4: error containment in a batch.  While runAnalysis analyses the
\* combinations c1..cn of one model in sequence, every iteration stores the
\* result of the next combination, whether the earlier ones failed or not,
\* and leaves the results stored before as they were; the loop is left only
\* after the last combination, and then there is exactly one stored result
\* per combination name.
C4_BatchContainment ==
    [][/\ (pc = "loop" /\ pc' = "loop") =>
            /\ idx' = idx + 1
            /\ StoredUpTo(currentResults', idx + 1)
            /\ \A k \in 1..idx : currentResults'[k] = currentResults[k]
       /\ (pc = "loop" /\ pc' # "loop") =>
            /\ idx = Len(Combinations)
            /\ currentResults' = currentResults
            /\ \A c \in 1..Len(Combinations) :
                  Cardinality(StoredFor(currentResults, Combinations[c].name)) = 1
      ]_vars

\* a batch of three combinations whose second one failed: the first result
\* is still the successful one and the third was analysed with success
C4_Witness ==
    /\ pc = "loop"
    /\ idx = 3
    /\ Len(Combinations) = 3
    /\ currentResults[1].value.success
    /\ ~currentResults[2].value.success
    /\ currentResults[2].value.error = NoDirectionError
    /\ currentResults[3].value.success

\* the members of model m whose two ends are the same node
SameNodeMembers(m) ==
    {k \in 1..Len(m.members) : m.members[k].iNode = m.members[k].jNode}

\* the notification of runAnalysis when the constructor rejects member `id`
ZeroLengthFailure(id) == AnalysisFailedMessage("Member " \o id \o " has zero length")

\* C13: validation enforces non-degenerate members.  currentModel only ever
\* holds a model that parseStanalFile accepted; each of its members joins two
\* distinct nodes and has non-zero length, and runAnalysis never reports the
\* zero-length error of the Analyzer constructor.
C13_ValidationEnforcesLength ==
    currentModel.loaded =>
        /\ SameNodeMembers(currentModel.value) = {}
        /\ ZeroLengthMembers(currentModel.value) = {}
        /\ \A k \in 1..Len(currentModel.value.members) :
              shown # ZeroLengthFailure(currentModel.value.members[k].id)

\* the findings contain one with this path and severity
HasFinding(findings, path, severity) ==
    \E k \in 1..Len(findings) : findings[k] = Finding(path, severity)

\* C14: support checks of validation.  Whenever validateDocument runs on a
\* document whose model has no support, or none that constrains dx, or none
\* that constrains dy, or none that constrains dz, the findings it publishes
\* contain an error on `supports`; and every model accepted by
\* parseStanalFile (the only ones currentModel ever holds) has at least one
\* support and a constraint on each of the three global translations.
C14_SupportChecks ==
    [][/\ \A t \in Texts :
            (/\ ValidateDocument(t)
             /\ t.json
             /\ (Len(t.value.supports) = 0 \/ FreeTranslations(t.value) # {}))
                => HasFinding(diagnostics', "supports", "error")
       /\ currentModel'.loaded =>
            /\ Len(currentModel'.value.supports) >= 1
            /\ FreeTranslations(currentModel'.value) = {}
      ]_vars

\* a document without a constraint on some translation was validated after
\* a well-supported one had been accepted
C14_Witness ==
    /\ diagnostics = <<Finding("supports", "error")>>
    /\ currentModel.loaded
    /\ Len(currentModel.value.supports) >= 1
    /\ FreeTranslations(currentModel.value) = {}

\* every entry of the Map `results` is what analyze returns for its key on an
\* Analyzer constructed from `model`; no model, or one the constructor
\* rejects, has produced no entry
ProducedFrom(results, model) ==
    IF ~model.loaded THEN results = EmptyMap
    ELSE \E r \in {initialize(model.value)} :
            IF r.threw THEN results = EmptyMap
            ELSE \A k \in 1..Len(results) :
                    /\ \E c \in 1..Len(model.value.loadCombinations) :
                          model.value.loadCombinations[c].name = results[k].key
                    /\ \E a \in {analyzeCall(r.value, results[k].key)} :
                          ~a.threw /\ a.result = results[k].value

\* C26: results never outlive their model.  In every state of the extension
\* each entry of currentResults is the result that an Analyzer built from the
\* model held in currentModel produces for the entry's combination, and the
\* results the preview panel holds are results of that model too.
C26_ResultsOfCurrentModel ==
    /\ ProducedFrom(currentResults, currentModel)
    /\ previewPanel.open => ProducedFrom(previewPanel.results, currentModel)

\* while runAnalysis fills the Map, and in the step that completes it, the
\* entries are results of currentModel
ResultsFreshInAnalysis ==
    [][(pc = "loop" \/ FinishAnalysis) => ProducedFrom(currentResults', currentModel')]_vars

\* results of an analysed model are held, and passed to the preview panel,
\* while currentModel is another model, for which they are not results
C26_Witness ==
    /\ pc = "idle"
    /\ currentModel.loaded
    /\ currentResults # EmptyMap
    /\ ~ProducedFrom(currentResults, currentModel)
    /\ previewPanel.open
    /\ previewPanel.results = currentResults

\* the editor showing a document with this text
EditorOn(text) == [open |-> TRUE, text |-> text]

\* the texts that parseStanalFile does not accept
FailingTexts == {t \in Texts : ~parseStanalFile(t).success}

\* C29: currentModel only after a successful parse.  currentModel starts
\* undefined and every step that assigns it assigns a model for which
\* parseStanalFile returns success with no finding; and a validateDocument,
\* showPreview or runAnalysis whose parse fails leaves currentModel and
\* currentResults as they were and starts no analysis.
C29_ModelOnlyAfterSuccessfulParse ==
    /\ ~currentModel.loaded
    /\ [][/\ currentModel' # currentModel =>
                /\ currentModel'.loaded
                /\ parseStanalFile(JsonOf(currentModel'.value)).success
                /\ validateModel(currentModel'.value) = <<>>
           /\ \A t \in FailingTexts :
                (\/ ValidateDocument(t)
                 \/ RunAnalysis(EditorOn(t))
                 \/ ShowPreview(EditorOn(t)))
                    => /\ currentModel' = currentModel
                       /\ currentResults' = currentResults
                       /\ pc' = "idle"
                       /\ analyzer' = analyzer
          ]_vars

\* a command was refused for a document that does not parse while the model
\* and the results of an earlier analysis were held, and they are still held
C29_Witness ==
    /\ pc = "idle"
    /\ shown = ParseFailedMessage
    /\ diagnostics # <<>>
    /\ currentModel.loaded
    /\ Len(currentResults) = Len(currentModel.value.loadCombinations)

\* the findings of this severity
OfSeverity(findings, severity) ==
    {k \in 1..Len(findings) : findings[k].severity = severity}

\* C30: warnings do not block loading.  parseStanalFile fails exactly on a
\* text that is not JSON or whose model has a finding of severity error; a
\* document whose findings are all warnings is loaded by validateDocument
\* into currentModel, and runAnalysis on it starts the analysis.
C30_WarningsDoNotBlock ==
    [][\A t \in Texts :
        /\ ValidateDocument(t) =>
            /\ ~parseStanalFile(t).success
                    <=> (~t.json \/ OfSeverity(diagnostics', "error") # {})
            /\ (t.json /\ OfSeverity(diagnostics', "error") = {})
                    => currentModel' = [loaded |-> TRUE, value |-> t.value]
        /\ (/\ RunAnalysis(EditorOn(t))
            /\ t.json
            /\ OfSeverity(validateModel(t.value), "error") = {}) => pc' = "progress"
      ]_vars

\* any finding blocks loading: parseStanalFile succeeds exactly on the JSON
\* of a model for which validateModel reports nothing, whatever the severity
AnyFindingBlocks ==
    [][\A t \in Texts :
        ValidateDocument(t) =>
            /\ parseStanalFile(t).success <=> (t.json /\ diagnostics' = <<>>)
            /\ diagnostics' # <<>> => currentModel' = currentModel
      ]_vars

\* a document whose findings are warnings only has been validated after a
\* model had been loaded, and the loaded model is not the one of the document
C30_Witness ==
    /\ diagnostics # <<>>
    /\ OfSeverity(diagnostics, "error") = {}
    /\ currentModel.loaded
    /\ validateModel(currentModel.value) = <<>>

====
